---- MODULE Spec2Model ----
(***************************************************************************)
(* Tiny16: a 16-bit software CPU (tiny.cpp).  The module models the        *)
(* Memory with its memory-mapped devices, the CPU core and the two-pass    *)
(* assembler, and states properties of them for TLC.                       *)
(*                                                                         *)
(* The 64 KiB array Memory::mem is zero-initialised; it is represented by  *)
(* the function of its non-zero bytes (MemGet / MemSet), which is exact.   *)
(***************************************************************************)
EXTENDS Integers, Sequences, FiniteSets, TLC

VARIABLES
    mem,          \* Memory::mem, as the function of its non-zero bytes
    timer,        \* Memory::timer
    timercmp,     \* Memory::timercmp
    irq_pending,  \* Memory::irq_pending
    cout,         \* std::cout: the bytes written by UART_OUT, in order, and
                  \* the message of the asm driver
    cerr,         \* std::cerr: <<opcode, PC - 2>> for an unknown opcode, and
                  \* the message of a caught exception
    R,            \* CPU::R[0..7]
    PC,           \* CPU::PC
    Z, N, C, V,   \* CPU flags
    halted,       \* CPU::halted
    ticks,        \* history: number of Memory::tick() calls so far
    mmio_log,     \* history: the addresses mmio_write was called with, in order
    calls,        \* history: number of CPU::exec() calls so far
    retired,      \* history: number of exec() calls made on a non-halted CPU
    hist,         \* history: <<PC, R[7], opcode>> as each of those calls began
    twin,         \* where two runs of one image are compared: the Memory and
                  \* CPU of the second run, and whether an exec of either
                  \* read 0xFF12..0xFF14 so far; <<>> elsewhere
    lines,        \* Assembler::lines
    sym,          \* Assembler::sym
    bytes,        \* Assembler::bytes
    fixups,       \* Assembler::fixups, as <<offset, symbol>>
    org,          \* Assembler::org
    pass1_pc,     \* the local pc of Assembler::pass1
    pass2_pc,     \* the local pc of Assembler::pass2
    line,         \* the index in lines of the line the running pass is at
    phase,        \* where main is: "pass1", "pass2", "assembled", "done",
                  \* "run", "error" (exception caught), "crashed"
    saved,        \* the binaries written by saveBinary, in order
    reached       \* history: bytes.size() when pass2 reached each line

vars == <<mem, timer, timercmp, irq_pending, cout, cerr, R, PC, Z, N, C, V,
          halted, ticks, mmio_log, calls, retired, hist, twin, lines, sym,
          bytes,
          fixups,
          org, pass1_pc, pass2_pc, line, phase, saved, reached>>

\* the variables of the assembler; those of the emulator other than cerr
asmvars == <<lines, sym, bytes, fixups, org, pass1_pc, pass2_pc, line, phase,
             saved, reached>>
cpuQuiet == <<mem, timer, timercmp, irq_pending, cout, R, PC, Z, N, C, V,
              halted, ticks, mmio_log, calls, retired, hist, twin>>

-----------------------------------------------------------------------------
(* Fixed-width arithmetic *)

W8  == 256
W16 == 65536
MMIO_BASE == 65280      \* 0xFF00
UART_OUT  == 65280      \* 0xFF00
UART_IN   == 65281      \* 0xFF01
TIMER_LO  == 65296      \* 0xFF10
TIMER_HI  == 65297      \* 0xFF11
TCMP_LO   == 65298      \* 0xFF12
TCMP_HI   == 65299      \* 0xFF13
IRQ_ACK   == 65300      \* 0xFF14
STACK_TOP == 32764      \* 0x7FFC

u8(v)  == v % W8
u16(v) == v % W16

\* uint32_t values are kept as <<high half, low half>>, each below 2^16
U32(hi, lo) == <<hi, lo>>
Add32(x, y) ==
    LET lo == x[2] + y[2]
    IN  <<u16(x[1] + y[1] + (lo \div W16)), u16(lo)>>

RECURSIVE BitAnd(_, _, _)
BitAnd(a, b, n) ==
    IF n = 0 THEN 0
    ELSE (a % 2) * (b % 2) + 2 * BitAnd(a \div 2, b \div 2, n - 1)

RECURSIVE BitOr(_, _, _)
BitOr(a, b, n) ==
    IF n = 0 THEN 0
    ELSE (IF (a % 2) + (b % 2) > 0 THEN 1 ELSE 0)
         + 2 * BitOr(a \div 2, b \div 2, n - 1)

RECURSIVE BitXor(_, _, _)
BitXor(a, b, n) ==
    IF n = 0 THEN 0
    ELSE ((a + b) % 2) + 2 * BitXor(a \div 2, b \div 2, n - 1)

And16(a, b) == BitAnd(a, b, 16)
Or16(a, b)  == BitOr(a, b, 16)
Xor16(a, b) == BitXor(a, b, 16)
Not16(a)    == (W16 - 1) - a
Bit(a, i)   == (a \div (2 ^ i)) % 2

sxt8_zero(imm8) == imm8

\* (uint16_t)(int16_t)(int8_t)imm8
sxt8(imm8) == IF imm8 >= 128 THEN imm8 + (W16 - W8) ELSE imm8
sxt5_zero(imm5) == imm5

\* the 5-bit field of a short LD/ST, sign-extended to 16 bits
sxt5(imm5) == IF imm5 >= 16 THEN imm5 + (W16 - 32) ELSE imm5

-----------------------------------------------------------------------------
(* Memory with MMIO.  The operators act on a record s holding the fields   *)
(* of Memory and CPU (the variables above, by name).                       *)

MemGet(m, a) == IF a \in DOMAIN m THEN m[a] ELSE 0
MemSet(m, a, v) ==
    IF v = 0
    THEN [x \in (DOMAIN m) \ {a} |-> m[x]]
    ELSE [x \in (DOMAIN m) \cup {a} |-> IF x = a THEN v ELSE m[x]]

mmio_read_openbus(s, addr) ==
    CASE addr = UART_OUT -> 0
      [] addr = UART_IN  -> 255
      [] addr = TIMER_LO -> s.timer % W8
      [] addr = TIMER_HI -> (s.timer \div W8) % W8
      [] addr = TCMP_LO  -> s.timercmp % W8
      [] addr = TCMP_HI  -> (s.timercmp \div W8) % W8
      [] addr = IRQ_ACK  -> IF s.irq_pending THEN 1 ELSE 0
      [] OTHER           -> 255

mmio_read(s, addr) ==
    CASE addr = UART_OUT -> 0
      [] addr = UART_IN  -> 255
      [] addr = TIMER_LO -> s.timer % W8
      [] addr = TIMER_HI -> (s.timer \div W8) % W8
      [] addr = TCMP_LO  -> s.timercmp % W8
      [] addr = TCMP_HI  -> (s.timercmp \div W8) % W8
      [] addr = IRQ_ACK  -> IF s.irq_pending THEN 1 ELSE 0
      [] OTHER           -> 0

mmio_write_dev_noack(s, addr, val) ==
    CASE addr = UART_OUT -> [s EXCEPT !.cout = Append(@, val)]
      [] addr = TIMER_LO -> [s EXCEPT !.timer = (@ \div W8) * W8 + val]
      [] addr = TIMER_HI -> [s EXCEPT !.timer = (@ % W8) + val * W8]
      [] addr = TCMP_LO  -> [s EXCEPT !.timercmp = (@ \div W8) * W8 + val]
      [] addr = TCMP_HI  -> [s EXCEPT !.timercmp = (@ % W8) + val * W8]
      [] OTHER           -> s

mmio_write_dev(s, addr, val) ==
    CASE addr = UART_OUT -> [s EXCEPT !.cout = Append(@, val)]
      [] addr = TIMER_LO -> [s EXCEPT !.timer = (@ \div W8) * W8 + val]
      [] addr = TIMER_HI -> [s EXCEPT !.timer = (@ % W8) + val * W8]
      [] addr = TCMP_LO  -> [s EXCEPT !.timercmp = (@ \div W8) * W8 + val]
      [] addr = TCMP_HI  -> [s EXCEPT !.timercmp = (@ % W8) + val * W8]
      [] addr = IRQ_ACK  -> IF val = 1 THEN [s EXCEPT !.irq_pending = FALSE]
                            ELSE s
      [] OTHER           -> s

mmio_write(s, addr, val) ==
    [mmio_write_dev(s, addr, val) EXCEPT !.mmio_log = Append(@, addr)]

read8(s, addr) ==
    IF addr >= MMIO_BASE THEN mmio_read(s, addr) ELSE MemGet(s.mem, addr)

read16(s, addr) ==
    LET lo == read8(s, addr)
        hi == read8(s, u16(addr + 1))
    IN  hi * W8 + lo

write8_zn(s, addr, val) ==
    IF addr >= MMIO_BASE THEN mmio_write(s, addr, val)
    ELSE [s EXCEPT !.mem = MemSet(@, addr, val), !.Z = (val = 0)]

write8(s, addr, val) ==
    IF addr >= MMIO_BASE THEN mmio_write(s, addr, val)
    ELSE [s EXCEPT !.mem = MemSet(@, addr, val)]

write16_flat(s, addr, val) ==
    [s EXCEPT !.mem = MemSet(MemSet(@, addr, val % W8),
                             u16(addr + 1), (val \div W8) % W8)]

write16(s, addr, val) ==
    write8(write8(s, addr, val % W8), u16(addr + 1), (val \div W8) % W8)

tick_body_by2(s) ==
    LET t == u16(s.timer + 2)
    IN  [s EXCEPT !.timer = t,
                  !.irq_pending = IF s.timercmp > 0 /\ t >= s.timercmp
                                  THEN TRUE ELSE @]

tick_body_gt(s) ==
    LET t == u16(s.timer + 1)
    IN  [s EXCEPT !.timer = t,
                  !.irq_pending = IF s.timercmp > 0 /\ t > s.timercmp
                                  THEN TRUE ELSE @]

tick_body_nozero(s) ==
    LET t == u16(s.timer + 1)
    IN  [s EXCEPT !.timer = t,
                  !.irq_pending = IF t >= s.timercmp THEN TRUE ELSE @]

tick_body_reload(s) ==
    LET t == u16(s.timer + 1)
    IN  IF s.timercmp > 0 /\ t >= s.timercmp
        THEN [s EXCEPT !.timer = 0, !.irq_pending = TRUE]
        ELSE [s EXCEPT !.timer = t]

tick_body_level(s) ==
    LET t == u16(s.timer + 1)
    IN  [s EXCEPT !.timer = t,
                  !.irq_pending = (s.timercmp > 0 /\ t >= s.timercmp)]

tick_body(s) ==
    LET t == u16(s.timer + 1)
    IN  [s EXCEPT !.timer = t,
                  !.irq_pending = IF s.timercmp > 0 /\ t >= s.timercmp
                                  THEN TRUE ELSE @]

tick(s) == [tick_body(s) EXCEPT !.ticks = @ + 1]

-----------------------------------------------------------------------------
(* CPU core *)

setZN(s, res) == [s EXCEPT !.Z = (res = 0), !.N = (Bit(res, 15) = 1)]

clearCV_none(s) == s

clearCV(s) == [s EXCEPT !.C = FALSE, !.V = FALSE]

\* add16: the record s with C, V, Z, N set, and the result
add16_w(a, b) == Add32(U32(0, a), U32(0, b))
add16_res(a, b) == add16_w(a, b)[2]
add16_subrule(s, a, b) ==
    LET w   == add16_w(a, b)
        res == w[2]
    IN  setZN([s EXCEPT !.C = (w[1] % 2 = 1),
                        !.V = (Bit(And16(Xor16(a, b), Xor16(a, res)), 15) = 1)],
              res)

add16(s, a, b) ==
    LET w   == add16_w(a, b)
        res == w[2]
    IN  setZN([s EXCEPT !.C = (w[1] % 2 = 1),
                        !.V = (Bit(And16(Not16(Xor16(a, b)), Xor16(a, res)), 15) = 1)],
              res)

\* sub16: b is promoted to int before ~, so (uint32_t)(~b) = 2^32 - 1 - b:
\* its high half is 0xFFFF and its low half is ~b in 16 bits
sub16_w(a, b) == Add32(Add32(U32(0, a), U32(Not16(0), Not16(b))), U32(0, 1))
sub16_res(a, b) == sub16_w(a, b)[2]
sub16_addrule(s, a, b) ==
    LET w   == sub16_w(a, b)
        res == w[2]
    IN  setZN([s EXCEPT !.C = (w[1] % 2 = 1),
                        !.V = (Bit(And16(Not16(Xor16(a, b)), Xor16(a, res)), 15) = 1)],
              res)

sub16(s, a, b) ==
    LET w   == sub16_w(a, b)
        res == w[2]
    IN  setZN([s EXCEPT !.C = (w[1] % 2 = 1),
                        !.V = (Bit(And16(Xor16(a, b), Xor16(a, res)), 15) = 1)],
              res)

push16(s, v) ==
    LET sp == u16(s.R[7] + W16 - 2)
    IN  write16([s EXCEPT !.R[7] = sp], sp, v)

pop16_val(s) == read16(s, s.R[7])
pop16_keep(s) == s
pop16(s) == [s EXCEPT !.R[7] = u16(@ + 2)]

fetch16_val(s) == read16(s, s.PC)
fetch16_nowrap(s) == [s EXCEPT !.PC = @ + 2]
fetch16(s) == [s EXCEPT !.PC = u16(@ + 2)]

\* field decode of CPU::exec
OpcodeOf(insn) == (insn \div 2048) % 32
RdOf(insn)     == (insn \div 256) % 8
Rs1Of(insn)    == (insn \div 32) % 8
Imm3Of_2bits(insn) == insn % 4
Imm3Of(insn)   == insn % 8
Imm8Of(insn)   == insn % 256
Imm5Of(insn)   == insn % 32

setReg(s, r, v) == setZN([s EXCEPT !.R[r] = v], v)

\* the switch of CPU::exec, after the opcode word was fetched (s.PC past it)
dispatch(s, insn) ==
    LET opcode == OpcodeOf(insn)
        rd     == RdOf(insn)
        rs1    == Rs1Of(insn)
        sh     == Imm3Of(insn) % 8
        simm8  == sxt8(Imm8Of(insn))
        w      == fetch16_val(s)      \* the operand word of a wide form
        sw     == fetch16(s)          \* the state after wide(w)
    IN  CASE opcode = 0  -> s
          [] opcode = 1  -> [s EXCEPT !.halted = TRUE]
          [] opcode = 2  -> clearCV(setReg(sw, rd, w))
          [] opcode = 3  -> clearCV(setReg(s, rd, s.R[rs1]))
          [] opcode = 4  -> [add16(s, s.R[rd], s.R[rs1])
                               EXCEPT !.R[rd] = add16_res(s.R[rd], s.R[rs1])]
          [] opcode = 5  -> [sub16(s, s.R[rd], s.R[rs1])
                               EXCEPT !.R[rd] = sub16_res(s.R[rd], s.R[rs1])]
          [] opcode = 6  -> clearCV(setReg(s, rd, And16(s.R[rd], s.R[rs1])))
          [] opcode = 7  -> clearCV(setReg(s, rd, Or16(s.R[rd], s.R[rs1])))
          [] opcode = 8  -> clearCV(setReg(s, rd, Xor16(s.R[rd], s.R[rs1])))
          [] opcode = 9  -> clearCV(setReg(s, rd, Not16(s.R[rd])))
          [] opcode = 10 ->
                IF sh # 0
                THEN [setReg(s, rd, u16(s.R[rd] * (2 ^ sh)))
                        EXCEPT !.C = (Bit(s.R[rd], 16 - sh) = 1), !.V = FALSE]
                ELSE [setZN(s, s.R[rd]) EXCEPT !.C = FALSE, !.V = FALSE]
          [] opcode = 11 ->
                IF sh # 0
                THEN [setReg(s, rd, s.R[rd] \div (2 ^ sh))
                        EXCEPT !.C = (Bit(s.R[rd], sh - 1) = 1), !.V = FALSE]
                ELSE [setZN(s, s.R[rd]) EXCEPT !.C = FALSE, !.V = FALSE]
          [] opcode = 12 -> [add16(s, s.R[rd], simm8)
                               EXCEPT !.R[rd] = add16_res(s.R[rd], simm8)]
          [] opcode = 13 -> sub16(s, s.R[rd], simm8)
          [] opcode = 14 -> sub16(s, s.R[rd], s.R[rs1])
          [] opcode = 15 -> clearCV(setReg(sw, rd, read16(sw, w)))
          [] opcode = 16 -> write16(sw, w, sw.R[rs1])
          [] opcode = 17 -> clearCV(setReg(sw, rd, read8(sw, w)))
          [] opcode = 18 -> write8(sw, w, sw.R[rs1] % W8)
          [] opcode = 19 ->
                clearCV(setReg(s, rd,
                               read16(s, u16(s.R[rs1] + sxt5(Imm5Of(insn))))))
          [] opcode = 20 ->
                write16(s, u16(s.R[rd] + sxt5(Imm5Of(insn))), s.R[rs1])
          [] opcode = 21 -> [sw EXCEPT !.PC = w]
          [] opcode = 22 -> IF sw.Z THEN [sw EXCEPT !.PC = w] ELSE sw
          [] opcode = 23 -> IF ~sw.Z THEN [sw EXCEPT !.PC = w] ELSE sw
          [] opcode = 24 -> IF sw.C THEN [sw EXCEPT !.PC = w] ELSE sw
          [] opcode = 25 -> IF sw.N THEN [sw EXCEPT !.PC = w] ELSE sw
          [] opcode = 26 -> [push16(sw, sw.PC) EXCEPT !.PC = w]
          [] opcode = 27 -> [pop16(s) EXCEPT !.PC = pop16_val(s)]
          [] opcode = 28 ->
                IF w >= MMIO_BASE
                THEN clearCV(setReg(sw, rd, read8(sw, w)))
                ELSE clearCV(setReg(sw, rd, read16(sw, w)))
          [] opcode = 29 ->
                IF w >= MMIO_BASE
                THEN write8(sw, w, sw.R[rs1] % W8)
                ELSE write16(sw, w, sw.R[rs1])
          [] OTHER ->
                \* the diagnostic prints PC - 2, evaluated in int
                [s EXCEPT !.cerr = Append(@, <<opcode, s.PC - 2>>),
                          !.halted = TRUE]

\* CPU::exec up to, not including, the call of mem.tick()
execute_nohalt(s) ==
    IF OpcodeOf(fetch16_val(s)) > 29 THEN fetch16(s)
    ELSE dispatch(fetch16(s), fetch16_val(s))

execute_alwaysjump(s) ==
    IF OpcodeOf(fetch16_val(s)) \in 22..25
    THEN dispatch(fetch16(s), 21 * 2048)
    ELSE dispatch(fetch16(s), fetch16_val(s))

execute(s) == dispatch(fetch16(s), fetch16_val(s))

exec_tick_first(s) == IF s.halted THEN s ELSE execute(tick(s))

exec_no_latch(s) == tick(execute(s))

exec(s) == IF s.halted THEN s ELSE tick(execute(s))

-----------------------------------------------------------------------------
(* Assembler: strings.  A std::string is a TLA+ string; positions are      *)
(* 1-based here and 0 stands for string::npos.  An operator that uses an   *)
(* intermediate value several times takes it as a parameter of a helper.   *)

Ch(s, i) == SubSeq(s, i, i)
From(s, i) == SubSeq(s, i, Len(s))          \* s.substr(i - 1)

UPPER == "ABCDEFGHIJKLMNOPQRSTUVWXYZ"
LOWER == "abcdefghijklmnopqrstuvwxyz"
HEXDIGITS == "0123456789abcdef"
\* the printable ASCII characters of codes 32..95 and of codes 97..126
ASCII_LO ==
    " !\"#$%&'()*+,-./0123456789:;<=>?@ABCDEFGHIJKLMNOPQRSTUVWXYZ[\\]^_"
ASCII_HI == "abcdefghijklmnopqrstuvwxyz{|}~"
SQ == "'"

RECURSIVE findFrom(_, _, _)
findFrom(s, c, i) ==
    IF i > Len(s) THEN 0
    ELSE IF Ch(s, i) = c THEN i ELSE findFrom(s, c, i + 1)

find(s, c) == findFrom(s, c, 1)

tolowerAt(c, i) == IF i = 0 THEN c ELSE Ch(LOWER, i)
tolower(c) == tolowerAt(c, find(UPPER, c))

RECURSIVE lowerFrom(_, _)
lowerFrom(s, i) ==
    IF i > Len(s) THEN "" ELSE tolower(Ch(s, i)) \o lowerFrom(s, i + 1)

lower(s) == lowerFrom(s, 1)

\* (unsigned char)c
CharCodeAt(c, lo) == IF lo # 0 THEN 31 + lo ELSE 96 + find(ASCII_HI, c)
CharCode(c) ==
    CASE c = "\t" -> 9
      [] c = "\n" -> 10
      [] c = "\r" -> 13
      [] OTHER    -> CharCodeAt(c, find(ASCII_LO, c))

is_space(c) == c \in {" ", "\t", "\r", "\n"}

RECURSIVE trimLeft(_, _)
trimLeft(s, a) ==
    IF a <= Len(s) /\ is_space(Ch(s, a)) THEN trimLeft(s, a + 1) ELSE a

RECURSIVE trimRight(_, _, _)
trimRight(s, a, b) ==
    IF b >= a /\ is_space(Ch(s, b)) THEN trimRight(s, a, b - 1) ELSE b

trimFrom(s, a) == SubSeq(s, a, trimRight(s, a, Len(s)))
trim(s) == trimFrom(s, trimLeft(s, 1))

StartsWith(s, p) == Len(s) >= Len(p) /\ SubSeq(s, 1, Len(p)) = p

\* the body of the loop of splitComma for the character c, with inStr and
\* par as the first three statements leave them
RECURSIVE splitCommaFrom(_, _, _, _, _, _)
splitCommaChar(s, i, out, cur, c, par, inStr) ==
    IF ~inStr /\ par = 0 /\ c = ","
    THEN splitCommaFrom(s, i + 1, Append(out, trim(cur)), "", par, inStr)
    ELSE splitCommaFrom(s, i + 1, out, cur \o c, par, inStr)

splitCommaPar(c, par, inStr) ==
    IF ~inStr /\ c = "[" THEN par + 1
    ELSE IF ~inStr /\ c = "]" THEN par - 1 ELSE par

splitCommaStr(s, i, out, cur, c, par, inStr) ==
    splitCommaChar(s, i, out, cur, c, splitCommaPar(c, par, inStr), inStr)

splitCommaFrom(s, i, out, cur, par, inStr) ==
    IF i > Len(s)
    THEN IF cur # "" THEN Append(out, trim(cur)) ELSE out
    ELSE splitCommaStr(s, i, out, cur, Ch(s, i), par,
                       IF Ch(s, i) = "\"" THEN ~inStr ELSE inStr)

splitComma(s) == splitCommaFrom(s, 1, <<>>, "", 0, FALSE)

\* strtol(s, &end, base), for values that fit a long: the value, and the
\* position end points at (Len(s) + 1 when it points at the final NUL)
digitVal(c) == find(HEXDIGITS, tolower(c)) - 1
inBase(d, base) == d >= 0 /\ d < base
isDigit(c, base) == inBase(digitVal(c), base)

RECURSIVE strtolDigits(_, _, _, _)
strtolDigits(s, i, base, acc) ==
    IF i <= Len(s) /\ isDigit(Ch(s, i), base)
    THEN strtolDigits(s, i + 1, base, acc * base + digitVal(Ch(s, i)))
    ELSE [val |-> acc, end |-> i]

\* no digits: no conversion, end = s
strtolEnd(neg, i2, d) ==
    IF d.end = i2 THEN [val |-> 0, end |-> 1]
    ELSE [val |-> IF neg THEN 0 - d.val ELSE d.val, end |-> d.end]

strtolBody(s, base, neg, i2) ==
    strtolEnd(neg, i2, strtolDigits(s, i2, base, 0))

\* the optional 0x of base 16
hexPrefix(s, base, i1) ==
    /\ base = 16
    /\ i1 + 2 <= Len(s)
    /\ Ch(s, i1) = "0"
    /\ tolower(Ch(s, i1 + 1)) = "x"
    /\ isDigit(Ch(s, i1 + 2), 16)

strtolPrefix(s, base, neg, i1) ==
    strtolBody(s, base, neg, IF hexPrefix(s, base, i1) THEN i1 + 2 ELSE i1)

\* the optional sign, after the leading white space
strtolSign(s, base, i0) ==
    strtolPrefix(s, base, i0 <= Len(s) /\ Ch(s, i0) = "-",
                 IF i0 <= Len(s) /\ Ch(s, i0) \in {"+", "-"}
                 THEN i0 + 1 ELSE i0)

strtol(s, base) == strtolSign(s, base, trimLeft(s, 1))

parse_regEnd(t, r) ==
    IF r.end <= Len(t) - 1 THEN [ok |-> FALSE, r |-> 0]
    ELSE IF r.val < 0 \/ r.val > 7 THEN [ok |-> FALSE, r |-> 0]
    ELSE [ok |-> TRUE, r |-> r.val]

parse_regLow(t) ==
    IF Len(t) < 2 \/ Ch(t, 1) # "r" THEN [ok |-> FALSE, r |-> 0]
    ELSE parse_regEnd(t, strtol(From(t, 2), 10))

parse_reg(s) == parse_regLow(lower(s))

\* long L = strtol(c, &end, base); if (*end == 0) ...
parse_intEnd(t, L) ==
    IF L.end > Len(t) THEN [ok |-> TRUE, v |-> L.val]
    ELSE [ok |-> FALSE, v |-> 0]

isQuoted(t) == Len(t) >= 3 /\ Ch(t, 1) = SQ /\ Ch(t, Len(t)) = SQ
isHex(t) == Len(t) > 2 /\ Ch(t, 1) = "0" /\ Ch(t, 2) \in {"x", "X"}

parse_intBody(t) ==
    IF isQuoted(t) /\ Len(t) = 3
    THEN [ok |-> TRUE, v |-> CharCode(Ch(t, 2))]
    ELSE IF isQuoted(t) /\ Len(t) = 4 /\ Ch(t, 2) = "\\"
    THEN [ok |-> TRUE,
          v |-> CASE Ch(t, 3) = "n" -> 10
                  [] Ch(t, 3) = "t" -> 9
                  [] Ch(t, 3) = "0" -> 0
                  [] OTHER -> CharCode(Ch(t, 3))]
    ELSE parse_intEnd(t, strtol(t, IF isHex(t) THEN 16 ELSE 10))

parse_int(s) ==
    parse_intBody(IF s # "" /\ Ch(s, 1) = "#" THEN From(s, 2) ELSE s)

\* the escape-decoded bytes of a .stringz operand; rest[0] is the quote
RECURSIVE stringzBody(_, _, _, _)
stringzChar(rest, i, esc, body, c) ==
    IF esc
    THEN stringzBody(rest, i + 1, FALSE,
                     Append(body, CASE c = "n" -> 10
                                    [] c = "t" -> 9
                                    [] c = "0" -> 0
                                    [] OTHER -> CharCode(c)))
    ELSE IF c = "\\" THEN stringzBody(rest, i + 1, TRUE, body)
    ELSE IF c = "\"" THEN body
    ELSE stringzBody(rest, i + 1, FALSE, Append(body, CharCode(c)))

stringzBody(rest, i, esc, body) ==
    IF i > Len(rest) THEN body
    ELSE stringzChar(rest, i, esc, body, Ch(rest, i))

\* ts >> mnemRaw; getline(ts, rest): the first blank-delimited token of a
\* trimmed line, and what follows it
RECURSIVE tokenEnd(_, _)
tokenEnd(s, i) ==
    IF i <= Len(s) /\ ~is_space(Ch(s, i)) THEN tokenEnd(s, i + 1) ELSE i

firstToken(s) == SubSeq(s, 1, tokenEnd(s, 1) - 1)
afterToken(s) == From(s, tokenEnd(s, 1))

\* strip comments, then trim
stripAt(raw, sc) == trim(IF sc # 0 THEN SubSeq(raw, 1, sc - 1) ELSE raw)
stripLine(raw) == stripAt(raw, find(raw, ";"))

-----------------------------------------------------------------------------
(* Assembler: the two passes.  The operators act on a record a holding the *)
(* members of Assembler and the locals pc of pass1 and pass2.  a.what is   *)
(* the message of the runtime_error thrown ("" when none was thrown), and  *)
(* a.ub tells that the line indexed parts beyond its size.                 *)

Throw(a, msg) == [a EXCEPT !.what = msg]

emit8(a, b) == [a EXCEPT !.bytes = Append(@, b % W8)]
emit16(a, w) == emit8(emit8(a, w % W8), (w \div W8) % W8)

emit_fixup16(a, name) ==
    emit16([a EXCEPT !.fixups = Append(@, <<Len(a.bytes), name>>)], 0)

emitRRI(a, op, rd, rs1, imm3) ==
    emit16(a, u16(op * 2048 + rd * 256 + rs1 * 32 + (imm3 % 8)))
emitR(a, op, rd, rs1) == emit16(a, u16(op * 2048 + rd * 256 + rs1 * 32))
emitRI8(a, op, rd, imm8) == emit16(a, u16(op * 2048 + rd * 256 + (imm8 % W8)))
emitW(a, op, rd) == emit16(a, u16(op * 2048 + rd * 256))

\* [0x1234] or [label]
parse_addrValue(inner, r) ==
    IF r.ok THEN [ok |-> TRUE, addr |-> u16(r.v), symb |-> ""]
    ELSE [ok |-> TRUE, addr |-> 0, symb |-> lower(inner)]

parse_addrInner(inner) == parse_addrValue(inner, parse_int(inner))

parse_addrTrimmed(t) ==
    IF Len(t) < 3 \/ Ch(t, 1) # "[" \/ Ch(t, Len(t)) # "]"
    THEN [ok |-> FALSE, addr |-> 0, symb |-> ""]
    ELSE parse_addrInner(trim(SubSeq(t, 2, Len(t) - 1)))

parse_addr_token(tok) == parse_addrTrimmed(trim(tok))

\* sym[lower(lab)] = pc
bind_first(a, lab) == [a EXCEPT !.sym = @ @@ (lower(lab) :> a.pass1_pc)]

bind(a, lab) == [a EXCEPT !.sym = (lower(lab) :> a.pass1_pc) @@ @]

\* a line with its comment stripped is a pure label, a label followed by a
\* statement, or a statement: the label it defines and the statement
hasLabel(s) == s # "" /\ find(s, ":") # 0
labelOf(s) ==
    IF Ch(s, Len(s)) = ":" THEN trim(SubSeq(s, 1, Len(s) - 1))
    ELSE trim(SubSeq(s, 1, find(s, ":") - 1))
stmtAt(s, colon) == IF colon # 0 THEN trim(From(s, colon + 1)) ELSE s
stmtOf(s) ==
    IF s = "" THEN ""
    ELSE IF Ch(s, Len(s)) = ":" THEN ""
    ELSE stmtAt(s, find(s, ":"))

needWide ==
    {"ldi", "ldb", "stb", "jmp", "jz", "jnz", "jc", "jn", "call", "in", "out"}

\* pc = (uint16_t)(pc + n)
advance(a, n) == [a EXCEPT !.pass1_pc = u16(@ + n)]

pass1_org_add(a, v) ==
    IF ~v.ok THEN Throw(a, ".org expects value")
    ELSE [a EXCEPT !.pass1_pc = u16(@ + v.v)]

pass1_org(a, v) ==
    IF ~v.ok THEN Throw(a, ".org expects value")
    ELSE [a EXCEPT !.pass1_pc = u16(v.v)]

pass1_stringz(a, rest) ==
    IF rest = "" \/ Ch(rest, 1) # "\"" THEN Throw(a, ".stringz expects string")
    ELSE advance(a, u16(Len(stringzBody(rest, 2, FALSE, <<>>)) + 1))

\* instruction size estimation
pass1_size(a, mnem, parts) ==
    IF mnem \in {"ld", "st"}
    THEN IF Len(parts) = 2 /\ find(parts[2], "+") # 0
         THEN advance(a, 2) ELSE advance(a, 4)
    ELSE IF mnem \in needWide THEN advance(advance(a, 2), 2)
    ELSE advance(a, 2)

\* pass 1 on a statement s, low being lower(s)
pass1_low(a, s, low) ==
    IF StartsWith(low, ".org") THEN pass1_org(a, parse_int(trim(From(s, 5))))
    ELSE IF StartsWith(low, ".word")
    THEN advance(a, 2 * Len(splitComma(trim(From(s, 6)))))
    ELSE IF StartsWith(low, ".stringz")
    THEN pass1_stringz(a, trim(From(s, 9)))
    ELSE pass1_size(a, lower(firstToken(s)), splitComma(trim(afterToken(s))))

pass1_stmt(a, s) == IF s = "" THEN a ELSE pass1_low(a, s, lower(s))

pass1_stripped(a, s) ==
    pass1_stmt(IF hasLabel(s) THEN bind(a, labelOf(s)) ELSE a, stmtOf(s))

\* the body of the loop of pass1, for the line raw
pass1_line(a, raw) == pass1_stripped(a, stripLine(raw))

\* parts[i - 1]: beyond the size of parts the read is undefined, and g
\* stands for the string it yields
Tok(parts, i, g) == IF i <= Len(parts) THEN parts[i] ELSE g
Touch(a, parts, i) == IF i <= Len(parts) THEN a ELSE [a EXCEPT !.ub = TRUE]

badReg(a, tok) == Throw(a, "bad register: " \o tok)

\* if (parse_int(tok, v)) emit16((uint16_t)v); else emit_fixup16(lower(tok));
emitParsed(a, tok, v) ==
    IF v.ok THEN emit16(a, u16(v.v)) ELSE emit_fixup16(a, lower(tok))
emitValue(a, tok) == emitParsed(a, tok, parse_int(tok))

\* the operand word of an absolute address t, or the error msg
emitAddrParsed(a, t, msg) ==
    IF ~t.ok THEN Throw(a, msg)
    ELSE IF t.symb = "" THEN emit16(a, t.addr)
    ELSE emit_fixup16(a, t.symb)
emitAddr(a, tok, msg) == emitAddrParsed(a, parse_addr_token(tok), msg)

\* int rd = reg_of(tok); emitW(op, rd); then the value or the address
asmRegValue(a, op, tok, rd, val) ==
    IF ~rd.ok THEN badReg(a, tok) ELSE emitValue(emitW(a, op, rd.r), val)
asmRegAddr(a, op, tok, rd, addrTok, msg) ==
    IF ~rd.ok THEN badReg(a, tok)
    ELSE emitAddr(emitW(a, op, rd.r), addrTok, msg)

asmLDI(a, parts) ==
    IF Len(parts) # 2 THEN Throw(a, "LDI rd, imm16")
    ELSE asmRegValue(a, 2, parts[1], parse_reg(parts[1]), parts[2])

\* rd = reg_of(t1); rs = reg_of(t2); emitR(op, rd, rs): a1 and a2 are a
\* with the reads of t1, and of t1 and t2, taken into account
asmRegs(a1, a2, op, t1, rd, t2, rs) ==
    IF ~rd.ok THEN badReg(a1, t1)
    ELSE IF ~rs.ok THEN badReg(a2, t2)
    ELSE emitR(a2, op, rd.r, rs.r)

asmMOV(a, parts) ==
    IF Len(parts) # 2 THEN Throw(a, "MOV rd, rs")
    ELSE asmRegs(a, a, 3, parts[1], parse_reg(parts[1]),
                 parts[2], parse_reg(parts[2]))

\* add, sub, and, or, xor, cmp: no check of parts.size()
asmRR(a, parts, g, op) ==
    asmRegs(Touch(a, parts, 1), Touch(Touch(a, parts, 1), parts, 2), op,
            Tok(parts, 1, g), parse_reg(Tok(parts, 1, g)),
            Tok(parts, 2, g), parse_reg(Tok(parts, 2, g)))

asmReg(a, op, tok, rd) ==
    IF ~rd.ok THEN badReg(a, tok) ELSE emitR(a, op, rd.r, 0)

asmNOT(a, parts) ==
    IF Len(parts) # 1 THEN Throw(a, "NOT rd")
    ELSE asmReg(a, 9, parts[1], parse_reg(parts[1]))

\* rd = reg_of(t1); then the shift count s or the value v of t2
asmShiftBy(a1, a2, op, t1, rd, s, msg) ==
    IF ~rd.ok THEN badReg(a1, t1)
    ELSE IF ~s.ok \/ s.v < 0 \/ s.v > 7 THEN Throw(a2, msg)
    ELSE emitRRI(a2, op, rd.r, 0, s.v)

asmImmOf(a1, a2, op, t1, rd, v, msg) ==
    IF ~rd.ok THEN badReg(a1, t1)
    ELSE IF ~v.ok THEN Throw(a2, msg)
    ELSE emitRI8(a2, op, rd.r, v.v)

\* shl, shr: no check of parts.size()
asmShift(a, parts, g, op, msg) ==
    asmShiftBy(Touch(a, parts, 1), Touch(Touch(a, parts, 1), parts, 2), op,
               Tok(parts, 1, g), parse_reg(Tok(parts, 1, g)),
               parse_int(Tok(parts, 2, g)), msg)

\* addi, cmpi: no check of parts.size(), none of the range of the value
asmImm8(a, parts, g, op, msg) ==
    asmImmOf(Touch(a, parts, 1), Touch(Touch(a, parts, 1), parts, 2), op,
             Tok(parts, 1, g), parse_reg(Tok(parts, 1, g)),
             parse_int(Tok(parts, 2, g)), msg)

\* the short form [rb+imm]: hi is the register of bits 10..8 and lo that of
\* bits 7..5 when rb is known (LD: hi = rd, lo = rb; ST: hi = rb, lo = rs)
asmShortWord(a, op, r, rbS, rb, v, name) ==
    IF ~rb.ok THEN badReg(a, rbS)
    ELSE IF ~v.ok THEN Throw(a, name \o " short imm must be int")
    ELSE IF op = 19
    THEN emit16(a, u16(op * 2048 + r * 256 + rb.r * 32 + (v.v % 32)))
    ELSE emit16(a, u16(op * 2048 + rb.r * 256 + r * 32 + (v.v % 32)))

asmShortParts(a, op, r, rbS, immS, name) ==
    asmShortWord(a, op, r, rbS, parse_reg(rbS), parse_int(immS), name)

asmShortAt(a, op, r, inside, plus, name) ==
    IF plus = 0 THEN Throw(a, name \o " short expects [rb+imm]")
    ELSE asmShortParts(a, op, r, trim(SubSeq(inside, 1, plus - 1)),
                       trim(From(inside, plus + 1)), name)

asmShortIn(a, op, r, inside, name) ==
    asmShortAt(a, op, r, inside, find(inside, "+"), name)

asmShort(a, op, r, addrTok, name) ==
    asmShortIn(a, op, r, trim(SubSeq(addrTok, 2, Len(addrTok) - 1)), name)

\* ld and st, r being reg_of(parts[0]): short is opcode 0x13 or 0x14; the
\* absolute form passes r to emitW, which puts it in bits 10..8
asmMem(a, parts, r, short, abs, name, msg) ==
    IF ~r.ok THEN badReg(a, parts[1])
    ELSE IF find(parts[2], "+") # 0
    THEN asmShort(a, short, r.r, parts[2], name)
    ELSE emitAddr(emitW(a, abs, r.r), parts[2], msg)

asmLD(a, parts) ==
    IF Len(parts) # 2 THEN Throw(a, "LD rd, [..]")
    ELSE asmMem(a, parts, parse_reg(parts[1]), 19, 15, "LD", "LD rd, [addr16]")

asmST(a, parts) ==
    IF Len(parts) # 2 THEN Throw(a, "ST rs, [..]")
    ELSE asmMem(a, parts, parse_reg(parts[1]), 20, 16, "ST", "ST rs, [addr16]")

\* ldb, stb, in: emitW(op, register), then the address
asmAbs(a, parts, op, msg) ==
    IF Len(parts) # 2 THEN Throw(a, msg)
    ELSE asmRegAddr(a, op, parts[1], parse_reg(parts[1]), parts[2], msg)

asmOutReg_rd(a, tok, rs, addrTok) ==
    IF ~rs.ok THEN badReg(a, tok)
    ELSE emitAddr(emitW(a, 29, rs.r), addrTok, "OUT rs, [addr16]")

\* out: opcode 0x1D, rd = 0, rs1 = rs
asmOutReg(a, tok, rs, addrTok) ==
    IF ~rs.ok THEN badReg(a, tok)
    ELSE emitAddr(emit16(a, u16(29 * 2048 + rs.r * 32)), addrTok,
                  "OUT rs, [addr16]")

asmOUT(a, parts) ==
    IF Len(parts) # 2 THEN Throw(a, "OUT rs, [addr16]")
    ELSE asmOutReg(a, parts[1], parse_reg(parts[1]), parts[2])

\* jmp, jz, jnz, jc, jn, call: no check of parts.size()
asmJump(a, parts, g, op) ==
    emitValue(Touch(emitW(a, op, 0), parts, 1), Tok(parts, 1, g))

\* pass 2 on an instruction with mnemonic M (lower case)
pass2_insn(a, M, parts, g) ==
    CASE M = "nop"  -> emit16(a, 0)
      [] M = "halt" -> emit16(a, 2048)
      [] M = "ldi"  -> asmLDI(a, parts)
      [] M = "mov"  -> asmMOV(a, parts)
      [] M = "add"  -> asmRR(a, parts, g, 4)
      [] M = "sub"  -> asmRR(a, parts, g, 5)
      [] M = "and"  -> asmRR(a, parts, g, 6)
      [] M = "or"   -> asmRR(a, parts, g, 7)
      [] M = "xor"  -> asmRR(a, parts, g, 8)
      [] M = "not"  -> asmNOT(a, parts)
      [] M = "shl"  -> asmShift(a, parts, g, 10, "SHL rd, 0..7")
      [] M = "shr"  -> asmShift(a, parts, g, 11, "SHR rd, 0..7")
      [] M = "addi" -> asmImm8(a, parts, g, 12, "ADDI rd, imm8")
      [] M = "cmpi" -> asmImm8(a, parts, g, 13, "CMPI rd, imm8")
      [] M = "cmp"  -> asmRR(a, parts, g, 14)
      [] M = "ld"   -> asmLD(a, parts)
      [] M = "st"   -> asmST(a, parts)
      [] M = "ldb"  -> asmAbs(a, parts, 17, "LDB rd, [addr16]")
      [] M = "stb"  -> asmAbs(a, parts, 18, "STB rs, [addr16]")
      [] M = "jmp"  -> asmJump(a, parts, g, 21)
      [] M = "jz"   -> asmJump(a, parts, g, 22)
      [] M = "jnz"  -> asmJump(a, parts, g, 23)
      [] M = "jc"   -> asmJump(a, parts, g, 24)
      [] M = "jn"   -> asmJump(a, parts, g, 25)
      [] M = "call" -> asmJump(a, parts, g, 26)
      [] M = "ret"  -> emitW(a, 27, 0)
      [] M = "in"   -> asmAbs(a, parts, 28, "IN rd, [addr16]")
      [] M = "out"  -> asmOUT(a, parts)
      [] OTHER      -> Throw(a, "Unknown mnemonic: " \o M)

\* while (bytes.size() < (size_t)(pc - org)) bytes.push_back(0);
padTo(a, n) ==
    [a EXCEPT !.bytes = @ \o [i \in 1..(n - Len(@)) |-> 0]]

RECURSIVE emitWords(_, _, _)
emitWords(a, parts, i) ==
    IF i > Len(parts) THEN a
    ELSE emitWords(emitParsed(a, trim(parts[i]), parse_int(parts[i])),
                   parts, i + 1)

RECURSIVE emitBytes(_, _, _)
emitBytes(a, body, i) ==
    IF i > Len(body) THEN a
    ELSE emitBytes(emit8(a, body[i]), body, i + 1)

\* .org in pass 2.  The value is read although parse_int may have failed
\* (pass 1 has thrown on such a line); a negative pc - org is a size_t no
\* vector can reach.
pass2_org(a, v) ==
    IF ~v.ok THEN [a EXCEPT !.ub = TRUE]
    ELSE IF u16(v.v) < a.org THEN Throw(a, "std::bad_alloc")
    ELSE padTo([a EXCEPT !.pass2_pc = u16(v.v)], u16(v.v) - a.org)

\* pass 2 on a statement s, low being lower(s)
pass2_low(a, s, low, g) ==
    IF StartsWith(low, ".org") THEN pass2_org(a, parse_int(trim(From(s, 5))))
    ELSE IF StartsWith(low, ".word")
    THEN emitWords(a, splitComma(trim(From(s, 6))), 1)
    ELSE IF StartsWith(low, ".stringz")
    THEN emit8(emitBytes(a, stringzBody(trim(From(s, 9)), 2, FALSE, <<>>), 1),
               0)
    ELSE pass2_insn(a, lower(firstToken(s)), splitComma(trim(afterToken(s))),
                    g)

pass2_stmt(a, s, g) == IF s = "" THEN a ELSE pass2_low(a, s, lower(s), g)

\* the body of the loop of pass2, for the line raw
pass2_line(a, raw, g) == pass2_stmt(a, stmtOf(stripLine(raw)), g)

\* resolve fixups
RECURSIVE resolveFrom(_, _)
patch(a, off, v) ==
    [a EXCEPT !.bytes[off + 1] = v % W8, !.bytes[off + 2] = (v \div W8) % W8]

resolveFix(a, i, off, name) ==
    IF name \notin DOMAIN a.sym THEN Throw(a, "undefined label: " \o name)
    ELSE resolveFrom(patch(a, off, a.sym[name]), i + 1)

resolveFrom(a, i) ==
    IF i > Len(a.fixups) THEN a
    ELSE resolveFix(a, i, a.fixups[i][1], a.fixups[i][2])

resolve_none(a) == a

resolve(a) == resolveFrom(a, 1)

\* The passes as whole functions, on a source text that no pass reads out
\* of the bounds of parts on: load, the loop of pass1, and pass2 with its
\* prologue, its loop and the fixup loop.  An exception ends the loop.
load(src) ==
    [lines |-> src, sym |-> <<>>, bytes |-> <<>>, fixups |-> <<>>, org |-> 0,
     pass1_pc |-> 0, pass2_pc |-> 0, what |-> "", ub |-> FALSE]

RECURSIVE pass1From(_, _)
pass1From(a, i) ==
    IF i > Len(a.lines) \/ a.what # "" THEN a
    ELSE pass1From(pass1_line(a, a.lines[i]), i + 1)

pass1(a) == pass1From([a EXCEPT !.pass1_pc = a.org], 1)

RECURSIVE pass2From(_, _)
pass2From(a, i) ==
    IF a.what # "" THEN a
    ELSE IF i > Len(a.lines) THEN resolve(a)
    ELSE pass2From(pass2_line(a, a.lines[i], ""), i + 1)

pass2(a) == pass2From([a EXCEPT !.pass2_pc = a.org, !.bytes = <<>>], 1)

assemble(src) == pass2(pass1(load(src)))

-----------------------------------------------------------------------------
(* Drivers.  main builds a Memory, loads an image with loadImage, builds   *)
(* the CPU, sets PC and calls exec while the CPU is not halted.            *)

State ==
    [mem |-> mem, timer |-> timer, timercmp |-> timercmp,
     irq_pending |-> irq_pending, cout |-> cout, cerr |-> cerr,
     R |-> R, PC |-> PC, Z |-> Z, N |-> N, C |-> C, V |-> V,
     halted |-> halted, ticks |-> ticks, mmio_log |-> mmio_log]

Install(s) ==
    /\ mem' = s.mem
    /\ timer' = s.timer
    /\ timercmp' = s.timercmp
    /\ irq_pending' = s.irq_pending
    /\ cout' = s.cout
    /\ cerr' = s.cerr
    /\ R' = s.R
    /\ PC' = s.PC
    /\ Z' = s.Z
    /\ N' = s.N
    /\ C' = s.C
    /\ V' = s.V
    /\ halted' = s.halted
    /\ ticks' = s.ticks
    /\ mmio_log' = s.mmio_log

\* Memory M; CPU cpu(M);
Fresh ==
    [mem |-> <<>>, timer |-> 0, timercmp |-> 0, irq_pending |-> FALSE,
     cout |-> <<>>, cerr |-> <<>>,
     R |-> [r \in 0..7 |-> IF r = 7 THEN STACK_TOP ELSE 0],
     PC |-> 0, Z |-> FALSE, N |-> FALSE, C |-> FALSE, V |-> FALSE,
     halted |-> FALSE, ticks |-> 0, mmio_log |-> <<>>]

RECURSIVE loadImageFrom(_, _, _, _)
loadImageFrom(s, bin, base, i) ==
    IF i > Len(bin) THEN s
    ELSE loadImageFrom(write8(s, u16(base + (i - 1)), bin[i]), bin, base, i + 1)

\* the byte the loop leaves at RAM address x when the whole image lies below
\* the MMIO page: bin[x - base] inside the image, the old byte outside it
loadImageByte(s, bin, base, x) ==
    IF x >= base /\ x < base + Len(bin) THEN bin[(x - base) + 1]
    ELSE MemGet(s.mem, x)

loadImageRam(s, bin, base) ==
    [x \in {y \in (DOMAIN s.mem) \cup (base .. (base + Len(bin) - 1)) :
                loadImageByte(s, bin, base, y) # 0}
        |-> loadImageByte(s, bin, base, x)]

\* for (i = 0; i < bin.size(); ++i) m.write8(base + i, bin[i]);  an image
\* wholly in RAM is a plain copy, each write8 being mem[addr] = val; any
\* other image goes through the loop byte by byte
loadImage(s, bin, base) ==
    IF base + Len(bin) <= MMIO_BASE
    THEN [s EXCEPT !.mem = loadImageRam(s, bin, base)]
    ELSE loadImageFrom(s, bin, base, 1)

\* the state in which the driver enters its exec loop
Boot(bin, base, pc) == [loadImage(Fresh, bin, base) EXCEPT !.PC = pc]

InitPair(s, t) ==
    /\ twin = t
    /\ mem = s.mem
    /\ timer = s.timer
    /\ timercmp = s.timercmp
    /\ irq_pending = s.irq_pending
    /\ cout = s.cout
    /\ cerr = s.cerr
    /\ R = s.R
    /\ PC = s.PC
    /\ Z = s.Z
    /\ N = s.N
    /\ C = s.C
    /\ V = s.V
    /\ halted = s.halted
    /\ ticks = s.ticks
    /\ mmio_log = s.mmio_log
    /\ calls = 0
    /\ retired = 0
    /\ hist = <<>>

InitCpu(s) == InitPair(s, <<>>)

\* emu: no Assembler is built; the image is read from a file
NoAssembler ==
    /\ lines = <<>>
    /\ sym = <<>>
    /\ bytes = <<>>
    /\ fixups = <<>>
    /\ org = 0
    /\ pass1_pc = 0
    /\ pass2_pc = 0
    /\ line = 0
    /\ phase = "run"
    /\ saved = <<>>
    /\ reached = <<>>

InitFrom(s) == InitCpu(s) /\ NoAssembler

-----------------------------------------------------------------------------
(* Binary images the emulator is run on: sequences of instruction words,   *)
(* in the bit layout CPU::exec decodes, stored little-endian.              *)

Insn(op, rd, rs1, imm) == op * 2048 + rd * 256 + rs1 * 32 + imm

RECURSIVE WordsToBytes(_)
WordsToBytes(ws) ==
    IF ws = <<>> THEN <<>>
    ELSE <<Head(ws) % W8, Head(ws) \div W8>> \o WordsToBytes(Tail(ws))

RECURSIVE Concat(_)
Concat(ss) == IF ss = <<>> THEN <<>> ELSE Head(ss) \o Concat(Tail(ss))

ImageOf(prog) == WordsToBytes(Concat(prog))

I_NOP            == <<Insn(0, 0, 0, 0)>>
I_HALT           == <<Insn(1, 0, 0, 0)>>
I_BAD(op)        == <<Insn(op, 0, 0, 0)>>
I_LDI(rd, v)     == <<Insn(2, rd, 0, 0), v>>
I_SUB(rd, rs)    == <<Insn(5, rd, rs, 0)>>
I_CMPI(rd, imm8) == <<Insn(13, rd, 0, imm8)>>
I_CMP(rd, rs)    == <<Insn(14, rd, rs, 0)>>
I_ST(rs, a)      == <<Insn(16, 0, rs, 0), a>>
I_IN(rd, a)      == <<Insn(28, rd, 0, 0), a>>
I_OUT(rs, a)     == <<Insn(29, 0, rs, 0), a>>

\* bounds
ProgLen        == 3    \* instructions in an image
MaxSteps       == 5    \* exec() calls on a running CPU
MaxHaltedCalls == 2    \* exec() calls on a halted CPU

\* instructions of the images of Spec: timer, compare, halt and unknown opcode
Menu ==
    { I_NOP, I_HALT, I_BAD(30),
      I_LDI(0, 65535),
      I_ST(0, TIMER_LO),
      I_OUT(0, TCMP_LO),
      I_OUT(0, UART_OUT) }

\* compare values held by timercmp before the first instruction
CmpInit == {0, 1, 2, 3}

Step ==
    /\ phase = "run"
    /\ ~halted
    /\ retired < MaxSteps
    /\ Install(exec(State))
    /\ calls' = calls + 1
    /\ retired' = retired + 1
    /\ hist' = Append(hist, <<PC, R[7], OpcodeOf(fetch16_val(State))>>)
    /\ twin' = twin
    /\ UNCHANGED asmvars

StepHalted ==
    /\ phase = "run"
    /\ halted
    /\ calls - retired < MaxHaltedCalls
    /\ Install(exec(State))
    /\ calls' = calls + 1
    /\ retired' = retired
    /\ hist' = hist
    /\ twin' = twin
    /\ UNCHANGED asmvars

Next == Step \/ StepHalted

Init ==
    \E prog \in [1..ProgLen -> Menu], k \in CmpInit :
        InitFrom([Boot(ImageOf(prog), 0, 0) EXCEPT !.timercmp = k])

Spec == Init /\ [][Next]_vars

\* Images that raise, re-arm, acknowledge and poll the interrupt flag
IrqProgLen == 4
IrqMenu ==
    { I_LDI(0, 1), I_OUT(0, TCMP_HI), I_OUT(0, IRQ_ACK), I_IN(1, IRQ_ACK),
      I_HALT }

InitIrq ==
    \E prog \in [1..IrqProgLen -> IrqMenu], k \in CmpInit :
        InitFrom([Boot(ImageOf(prog), 0, 0) EXCEPT !.timercmp = k])

SpecIrq == InitIrq /\ [][Next]_vars

\* One arithmetic instruction followed by HALT, run with R0 and R1 holding
\* operands drawn from AluVals and with the flags all clear or all set
AluVals == {0, 1, 2, 32767, 32768, 65535}
AluMenu ==
    { I_SUB(0, 1), I_CMP(0, 1),
      I_CMPI(0, 0), I_CMPI(0, 1), I_CMPI(0, 127), I_CMPI(0, 128), I_CMPI(0, 255) }

InitAlu ==
    \E a \in AluVals, b \in AluVals, f \in BOOLEAN, i \in AluMenu :
        InitFrom([Boot(ImageOf(<<i, I_HALT>>), 0, 0)
                    EXCEPT !.R[0] = a, !.R[1] = b,
                           !.Z = f, !.N = f, !.C = f, !.V = f])

SpecAlu == InitAlu /\ [][Next]_vars

-----------------------------------------------------------------------------
(* The asm and run drivers.  main loads the source text into an Assembler, *)
(* calls pass1 and pass2, and then saves the bytes (asm) or loads them at  *)
(* base 0 and runs the CPU from PC = 0 (run).  The passes are taken line   *)
(* by line; a runtime_error ends the program in main's catch clause.       *)

Asm ==
    [lines |-> lines, sym |-> sym, bytes |-> bytes, fixups |-> fixups,
     org |-> org, pass1_pc |-> pass1_pc, pass2_pc |-> pass2_pc,
     what |-> "", ub |-> FALSE]

AsmInstall(a) ==
    /\ sym' = a.sym
    /\ bytes' = a.bytes
    /\ fixups' = a.fixups
    /\ pass1_pc' = a.pass1_pc
    /\ pass2_pc' = a.pass2_pc

\* A.load(text), text being the lines of src joined by newlines
Loaded(src) ==
    /\ lines = src
    /\ sym = <<>>
    /\ bytes = <<>>
    /\ fixups = <<>>
    /\ org = 0
    /\ pass1_pc = 0
    /\ pass2_pc = 0
    /\ line = 1
    /\ phase = "pass1"
    /\ saved = <<>>
    /\ reached = <<>>

InitSource(src) == InitCpu(Fresh) /\ Loaded(src)

\* what an out-of-range parts[i] may yield when the program goes on
Garbage == {"r5", "6", "?"}

Pass1Line ==
    /\ phase = "pass1"
    /\ line <= Len(lines)
    /\ LET a == pass1_line(Asm, lines[line])
       IN  /\ AsmInstall(a)
           /\ IF a.what # ""
              THEN /\ phase' = "error"
                   /\ cerr' = Append(cerr, "Error: " \o a.what)
                   /\ line' = line
              ELSE /\ phase' = phase
                   /\ cerr' = cerr
                   /\ line' = line + 1
    /\ UNCHANGED <<lines, org, saved, reached>>
    /\ UNCHANGED cpuQuiet

\* pass1 returns; pass2 sets pc = org and clears bytes
Pass2Begin ==
    /\ phase = "pass1"
    /\ line > Len(lines)
    /\ phase' = "pass2"
    /\ line' = 1
    /\ pass2_pc' = org
    /\ bytes' = <<>>
    /\ UNCHANGED <<lines, sym, fixups, org, pass1_pc, saved, reached, cerr>>
    /\ UNCHANGED cpuQuiet

Pass2Line ==
    /\ phase = "pass2"
    /\ line <= Len(lines)
    /\ LET ub == pass2_line(Asm, lines[line], "").ub
       IN  \E g \in (IF ub THEN Garbage ELSE {""}),
              crash \in (IF ub THEN BOOLEAN ELSE {FALSE}) :
             LET a == pass2_line(Asm, lines[line], g)
             IN  IF crash
                 THEN /\ phase' = "crashed"
                      /\ UNCHANGED <<sym, bytes, fixups, pass1_pc, pass2_pc,
                                     line, reached, cerr>>
                 ELSE /\ AsmInstall(a)
                      /\ reached' = Append(reached, Len(bytes))
                      /\ IF a.what # ""
                         THEN /\ phase' = "error"
                              /\ cerr' = Append(cerr, "Error: " \o a.what)
                              /\ line' = line
                         ELSE /\ phase' = phase
                              /\ cerr' = cerr
                              /\ line' = line + 1
    /\ UNCHANGED <<lines, org, saved>>
    /\ UNCHANGED cpuQuiet

\* the fixup loop that ends pass2
Resolve ==
    /\ phase = "pass2"
    /\ line > Len(lines)
    /\ LET a == resolve(Asm)
       IN  /\ AsmInstall(a)
           /\ IF a.what # ""
              THEN /\ phase' = "error"
                   /\ cerr' = Append(cerr, "Error: " \o a.what)
              ELSE /\ phase' = "assembled"
                   /\ cerr' = cerr
    /\ UNCHANGED <<lines, org, line, saved, reached>>
    /\ UNCHANGED cpuQuiet

\* asm: saveBinary(out, A.bytes) and the message on std::cout
Save ==
    /\ phase = "assembled"
    /\ phase' = "done"
    /\ saved' = Append(saved, bytes)
    /\ cout' = Append(cout, "Assembled (" \o ToString(Len(bytes)) \o " bytes)")
    /\ UNCHANGED <<lines, sym, bytes, fixups, org, pass1_pc, pass2_pc, line,
                   reached>>
    /\ UNCHANGED <<mem, timer, timercmp, irq_pending, cerr, R, PC, Z, N, C, V,
                   halted, ticks, mmio_log, calls, retired, hist, twin>>

\* run: Memory M; loadImage(M, A.bytes, 0x0000); CPU cpu(M); cpu.PC = 0x0000;
Load ==
    /\ phase = "assembled"
    /\ phase' = "run"
    /\ Install(Boot(bytes, 0, 0))
    /\ UNCHANGED <<calls, retired, hist, twin>>
    /\ UNCHANGED <<lines, sym, bytes, fixups, org, pass1_pc, pass2_pc, line,
                   saved, reached>>

NextAsm == Pass1Line \/ Pass2Begin \/ Pass2Line \/ Resolve \/ Save

NextRun ==
    Pass1Line \/ Pass2Begin \/ Pass2Line \/ Resolve \/ Load \/ Step
        \/ StepHalted

\* bound
SrcLen == 3    \* lines in a source text of SpecAsm

\* lines of the source texts of SpecAsm: labels, directives, one- and
\* two-word instructions, label operands, a missing operand
LineMenu ==
    { "start:",
      "loop: ADDI r0, 1",
      ".org 4",
      ".word 1, start",
      ".stringz \"a;b\"",
      "LD r1, [r2+3]",
      "JMP loop",
      "ADD r0" }

InitAsm == \E src \in [1..SrcLen -> LineMenu] : InitSource(src)

SpecAsm == InitAsm /\ [][NextAsm]_vars

\* One-line source texts, an instruction each, over these operands
EncRegs  == {0, 3, 7}
EncImm8  == {0, 1, 127, 128, 200, 255, 300, 0 - 1, 0 - 128}
EncImm5  == {0, 15, 16, 0 - 1, 0 - 16}
EncImm3  == {0, 7}
EncAddrs == {0, 8192, 65535}

Reg(r) == "r" \o ToString(r)
Line2(M, x, y) == M \o " " \o x \o ", " \o y
At(x) == "[" \o x \o "]"
Plus(x, y) == "[" \o x \o "+" \o y \o "]"

EncLines ==
    {"NOP", "HALT", "RET"}
      \cup {Line2(M, Reg(d), Reg(s)) :
              M \in {"MOV", "ADD", "SUB", "AND", "OR", "XOR", "CMP"},
              d \in EncRegs, s \in EncRegs}
      \cup {"NOT " \o Reg(d) : d \in EncRegs}
      \cup {Line2(M, Reg(d), ToString(i)) :
              M \in {"SHL", "SHR"}, d \in EncRegs, i \in EncImm3}
      \cup {Line2(M, Reg(d), ToString(i)) :
              M \in {"ADDI", "CMPI"}, d \in EncRegs, i \in EncImm8}
      \cup {Line2("LDI", Reg(d), ToString(v)) : d \in EncRegs, v \in EncAddrs}
      \cup {Line2(M, Reg(d), At(ToString(v))) :
              M \in {"LD", "ST", "LDB", "STB", "IN", "OUT"},
              d \in EncRegs, v \in EncAddrs}
      \cup {Line2(M, Reg(d), Plus(Reg(b), ToString(i))) :
              M \in {"LD", "ST"}, d \in EncRegs, b \in EncRegs, i \in EncImm5}
      \cup {M \o " " \o ToString(v) :
              M \in {"JMP", "JZ", "JNZ", "JC", "JN", "CALL"}, v \in EncAddrs}
      \cup {"JMP nowhere", "ADD r0", "SHL r1, 8"}

InitEnc == \E l \in EncLines : InitSource(<<l>>)

SpecEnc == InitEnc /\ [][NextAsm]_vars

\* Source texts that load two registers, store one of them and halt
StoreOps   == {"ST", "STB"}
StoreRegs  == 0..7
StoreAddrs == {8192, 65278}
StoreVals  == {4660, 48879}

StoreSource(op, rs, A, x, y) ==
    << Line2("LDI", Reg(0), ToString(x)),
       Line2("LDI", Reg(rs), ToString(y)),
       Line2(op, Reg(rs), At(ToString(A))),
       "HALT" >>

RunSources ==
    {StoreSource(op, rs, A, x, y) :
       op \in StoreOps, rs \in StoreRegs, A \in StoreAddrs,
       x \in StoreVals, y \in StoreVals}

InitRun == \E src \in RunSources : InitSource(src)

SpecRun == InitRun /\ [][NextRun]_vars

-----------------------------------------------------------------------------
(* Properties of the timer, the interrupt flag and the halt latch (Spec)   *)

Logged == {mmio_log[i] : i \in DOMAIN mmio_log}
\* the addresses mmio_write is called with during the step
StepWrites == {mmio_log'[i] : i \in (Len(mmio_log) + 1)..Len(mmio_log')}
TimerRegs == {TIMER_LO, TIMER_HI}
CompareRegs == {TCMP_LO, TCMP_HI}

\* C4 as stated: after N instructions have retired, timer = N mod 2^16, for
\* every program.
C4_TimerEqualsRetired == timer = retired % W16

\* C4 amended: timer = N mod 2^16 as long as the program has not written
\* TIMER_LO or TIMER_HI, and every retiring step that writes neither advances
\* timer by one modulo 2^16.
C4_TimerCountsUnlessWritten ==
    /\ [](Logged \cap TimerRegs = {} => timer = retired % W16)
    /\ [][(retired' = retired + 1 /\ StepWrites \cap TimerRegs = {})
            => timer' = (timer + 1) % W16]_vars

C4_Witness ==
    /\ retired = MaxSteps
    /\ timer = MaxSteps
    /\ Logged \cap TimerRegs = {}
    /\ Logged # {}

C6_IrqAtKth ==
    (timercmp > 0 /\ Logged \cap (TimerRegs \cup CompareRegs) = {})
        => (irq_pending <=> retired >= timercmp)

C6_Witness ==
    /\ timercmp = 3
    /\ retired = 3
    /\ irq_pending
    /\ Logged \cap (TimerRegs \cup CompareRegs) = {}

\* C7: while timercmp is 0 no step raises irq_pending, whatever timer is,
\* also when timer wraps from 0xFFFF to 0.
C7_DisabledCompare ==
    [][(timercmp = 0 /\ timercmp' = 0 /\ ~irq_pending) => ~irq_pending']_vars

C7_Witness ==
    /\ timercmp = 0
    /\ timer = 0
    /\ retired > 0
    /\ TIMER_HI \in Logged
    /\ ~irq_pending

\* C10: the halt latch is absorbing: an exec step on a halted CPU leaves it
\* halted and changes neither PC, the registers, the flags, the memory, the
\* timer, the compare value, irq_pending nor the output.
C10_HaltAbsorbing ==
    [][halted =>
         /\ halted'
         /\ UNCHANGED <<PC, R, Z, N, C, V, mem, timer, timercmp, irq_pending,
                        cout, cerr>>]_vars

C10_Witness ==
    /\ halted
    /\ calls - retired = MaxHaltedCalls
    /\ timercmp > 0
    /\ timer < timercmp

-----------------------------------------------------------------------------
(* The instruction about to be executed *)

CurInsn    == fetch16_val(State)
CurOpcode  == OpcodeOf(CurInsn)
CurOperand == read16(State, u16(PC + 2))

-----------------------------------------------------------------------------
(* Properties of the arithmetic instructions (SpecAlu) *)

IsSubStep == ~halted /\ CurOpcode \in {5, 13, 14}
SubMinuend == R[RdOf(CurInsn)]
SubSubtrahend ==
    IF CurOpcode = 13 THEN sxt8(Imm8Of(CurInsn)) ELSE R[Rs1Of(CurInsn)]

\* C1: SUB, CMP and CMPI with minuend a and subtrahend b leave C = 1 exactly
\* when no borrow occurs (a >= b unsigned), and C = 0 when a < b.
C1_CarryIsNotBorrow ==
    [][IsSubStep => (C' <=> SubMinuend >= SubSubtrahend)]_vars

-----------------------------------------------------------------------------
(* Properties of the interrupt acknowledge (SpecIrq) *)

IsAckStep ==
    /\ ~halted
    /\ CurOpcode = 29
    /\ CurOperand = IRQ_ACK
    /\ R[Rs1Of(CurInsn)] % W8 = 1

IsIrqPollStep == ~halted /\ CurOpcode = 28 /\ CurOperand = IRQ_ACK

\* C3 as stated: once OUT rs,[0xFF14] with low byte 1 has retired,
\* irq_pending is false, whatever timer and timercmp are.
C3_AckLeavesIrqClear == [][IsAckStep => ~irq_pending']_vars

\* C3 amended: the write clears irq_pending, and the tick ending the same
\* instruction raises it again when timercmp > 0 and timer >= timercmp; so
\* after the OUT has retired irq_pending is false exactly when timercmp = 0
\* or timer < timercmp, and an IN rd,[0xFF14] reads irq_pending as 0 or 1.
C3_AckClearsUnlessCompareHolds ==
    /\ [][IsAckStep =>
            (irq_pending' <=> (timercmp' > 0 /\ timer' >= timercmp'))]_vars
    /\ [][IsIrqPollStep =>
            R'[RdOf(CurInsn)] = (IF irq_pending THEN 1 ELSE 0)]_vars

C3_Witness ==
    /\ mmio_log = <<TCMP_HI, IRQ_ACK>>
    /\ timercmp = 257
    /\ retired = 4
    /\ ~irq_pending
    /\ R[0] = 1
    /\ R[1] = 0
    /\ Z

-----------------------------------------------------------------------------
(* Properties of the store instructions, assembled and run (SpecRun) *)

\* the word and the byte that RAM holds at address A
RamWord(A) == MemGet(mem, A) + W8 * MemGet(mem, u16(A + 1))
RamByte(A) == MemGet(mem, A)

\* C2: for every register rs and every address A below 0xFF00, the words
\* assembled for ST rs,[A] make the emulator write R[rs] as a little-endian
\* word at A, and those for STB rs,[A] make it write the low byte of R[rs]
\* at A.  The program is LDI r0,x; LDI rs,y; ST/STB rs,[A]; HALT, run to
\* the halt.
C2_StoreNamedRegister ==
    \A op \in StoreOps, rs \in StoreRegs, A \in StoreAddrs,
       x \in StoreVals, y \in StoreVals :
        (lines = StoreSource(op, rs, A, x, y) /\ phase = "run" /\ halted)
            => IF op = "ST" THEN RamWord(A) = R[rs]
               ELSE RamByte(A) = R[rs] % W8

-----------------------------------------------------------------------------
(* Properties of the two passes (SpecAsm) *)

Assembled == phase \in {"assembled", "done"}

\* line i defines a label that no later line defines again
LastDef(i) ==
    /\ hasLabel(stripLine(lines[i]))
    /\ \A j \in (i + 1)..Len(lines) :
          hasLabel(stripLine(lines[j]))
              => lower(labelOf(stripLine(lines[j])))
                    # lower(labelOf(stripLine(lines[i])))

\* C8: for every input that assembles without error, the address pass 1
\* records for each label equals org plus the number of bytes pass 2 has
\* emitted when it reaches the line of that label, and the pc at the end of
\* pass 1 equals org plus the final byte count of pass 2.
C8_TwoPassConsistent ==
    Assembled =>
        /\ \A i \in 1..Len(lines) :
              LastDef(i)
                  => sym[lower(labelOf(stripLine(lines[i])))]
                        = org + reached[i]
        /\ pass1_pc = org + Len(bytes)

-----------------------------------------------------------------------------
(* Properties of the instruction encoding (SpecEnc) *)

\* the opcode CPU::exec gives to each mnemonic; LD and ST have a second
\* opcode for the short form
Opcode(M, short) ==
    CASE M = "nop"  -> 0   [] M = "halt" -> 1   [] M = "ldi"  -> 2
      [] M = "mov"  -> 3   [] M = "add"  -> 4   [] M = "sub"  -> 5
      [] M = "and"  -> 6   [] M = "or"   -> 7   [] M = "xor"  -> 8
      [] M = "not"  -> 9   [] M = "shl"  -> 10  [] M = "shr"  -> 11
      [] M = "addi" -> 12  [] M = "cmpi" -> 13  [] M = "cmp"  -> 14
      [] M = "ld"   -> IF short THEN 19 ELSE 15
      [] M = "st"   -> IF short THEN 20 ELSE 16
      [] M = "ldb"  -> 17  [] M = "stb"  -> 18
      [] M = "jmp"  -> 21  [] M = "jz"   -> 22  [] M = "jnz"  -> 23
      [] M = "jc"   -> 24  [] M = "jn"   -> 25  [] M = "call" -> 26
      [] M = "ret"  -> 27  [] M = "in"   -> 28  [] M = "out"  -> 29

\* the one line of the source text, its mnemonic and its operands
EncM     == lower(firstToken(stripLine(lines[1])))
EncParts == splitComma(trim(afterToken(stripLine(lines[1]))))
\* the number of operands the mnemonic takes
EncArity ==
    CASE EncM \in {"nop", "halt", "ret"} -> 0
      [] EncM \in {"not", "jmp", "jz", "jnz", "jc", "jn", "call"} -> 1
      [] OTHER -> 2
EncShort == EncM \in {"ld", "st"} /\ find(EncParts[2], "+") # 0
EncReg(i) == parse_reg(EncParts[i]).r
EncInt(i) == parse_int(EncParts[i]).v
EncInside == SubSeq(EncParts[2], 2, Len(EncParts[2]) - 1)
EncBase  == parse_reg(SubSeq(EncInside, 1, find(EncInside, "+") - 1)).r
EncDisp  == parse_int(From(EncInside, find(EncInside, "+") + 1)).v

\* the instruction word and the operand word of the emitted bytes
EncWord    == bytes[1] + W8 * bytes[2]
EncOperand == bytes[3] + W8 * bytes[4]

\* C9: for every instruction line the assembler accepts, the fields the
\* emulator extracts from the emitted bytes (opcode, rd, rs1, and imm3,
\* sign-extended imm8, sign-extended imm5 or the operand word) are the
\* opcode, the registers and the immediate value written in the line, in
\* the positions CPU::exec reads them from.  Immediates are compared as
\* 16-bit two's complement values.  The lines are those of one-line source
\* texts that write every operand of their mnemonic.
C9_RoundTrip ==
    (phase = "done" /\ Len(lines) = 1 /\ Len(EncParts) = EncArity) =>
        /\ OpcodeOf(EncWord) = Opcode(EncM, EncShort)
        /\ CASE EncM \in {"mov", "add", "sub", "and", "or", "xor", "cmp"} ->
                  RdOf(EncWord) = EncReg(1) /\ Rs1Of(EncWord) = EncReg(2)
             [] EncM = "not" -> RdOf(EncWord) = EncReg(1)
             [] EncM \in {"shl", "shr"} ->
                  RdOf(EncWord) = EncReg(1) /\ Imm3Of(EncWord) = EncInt(2)
             [] EncM \in {"addi", "cmpi"} ->
                  /\ RdOf(EncWord) = EncReg(1)
                  /\ sxt8(Imm8Of(EncWord)) = u16(EncInt(2))
             [] EncM = "ldi" ->
                  RdOf(EncWord) = EncReg(1) /\ EncOperand = u16(EncInt(2))
             [] EncM \in {"ld", "ldb", "in"} /\ ~EncShort ->
                  /\ RdOf(EncWord) = EncReg(1)
                  /\ EncOperand = parse_addr_token(EncParts[2]).addr
             [] EncM \in {"st", "stb", "out"} /\ ~EncShort ->
                  /\ Rs1Of(EncWord) = EncReg(1)
                  /\ EncOperand = parse_addr_token(EncParts[2]).addr
             [] EncM = "ld" /\ EncShort ->
                  /\ RdOf(EncWord) = EncReg(1)
                  /\ Rs1Of(EncWord) = EncBase
                  /\ sxt5(Imm5Of(EncWord)) = u16(EncDisp)
             [] EncM = "st" /\ EncShort ->
                  /\ Rs1Of(EncWord) = EncReg(1)
                  /\ RdOf(EncWord) = EncBase
                  /\ sxt5(Imm5Of(EncWord)) = u16(EncDisp)
             [] EncM \in {"jmp", "jz", "jnz", "jc", "jn", "call"} ->
                  EncOperand = u16(EncInt(1))
             [] OTHER -> TRUE

-----------------------------------------------------------------------------
(* One instruction of every opcode, followed by HALT, loaded at 0 and run  *)
(* from PC = 0 with R0 and R1 holding operands drawn from OpVals, the word *)
(* at DataAddr holding a third one, and the flags set in pairs.  In the    *)
(* menu rd is R0 and rs1 is R1, except for the short ST, whose base is rd. *)

DataAddr == 8192        \* 0x2000
JumpTo   == 6
OpVals   == {0, 1, 255, 32767, 32768, 65535}
OpAddrs  == {DataAddr, UART_OUT, UART_IN, TIMER_LO, 65312, 65535}

OpsMenu ==
    { <<Insn(op, 0, 1, 0)>> : op \in {0, 1, 3, 4, 5, 6, 7, 8, 9, 14, 27, 30, 31} }
    \cup { <<Insn(4, 0, 0, 0)>> }
    \cup { <<Insn(op, 0, 0, sh)>> : op \in {10, 11}, sh \in 0..7 }
    \cup { <<Insn(op, 0, 0, k)>> : op \in {12, 13}, k \in {0, 1, 127, 128, 255} }
    \cup { <<Insn(2, 0, 0, 0), v>> : v \in {0, 1, 32768} }
    \cup { <<Insn(op, 0, 1, 0), a>> : op \in {15, 16, 17, 18, 28, 29}, a \in OpAddrs }
    \cup { <<Insn(19, 0, 1, d)>> : d \in {0, 1, 31} }
    \cup { <<Insn(20, 0, 1, d)>> : d \in {0, 1, 31} }
    \cup { <<Insn(op, 0, 0, 0), JumpTo>> : op \in 21..26 }

InitOps ==
    \E i \in OpsMenu, a \in OpVals, b \in OpVals, d \in {0, 32768},
       zc \in BOOLEAN, nv \in BOOLEAN :
        InitFrom([write16(Boot(ImageOf(<<i, <<Insn(1, 0, 0, 0)>>>>), 0, 0),
                          DataAddr, d)
                    EXCEPT !.R[0] = a, !.R[1] = b,
                           !.Z = zc, !.C = zc, !.N = nv, !.V = nv])

SpecOps == InitOps /\ [][Next]_vars

-----------------------------------------------------------------------------
(* Properties of single instructions (SpecOps).  A step of a running CPU   *)
(* executes the instruction at PC; the unprimed variables are the state    *)
(* before it and the primed ones the state after it.                       *)

Running == phase = "run" /\ ~halted
Rd  == RdOf(CurInsn)
Rs1 == Rs1Of(CurInsn)
SignBit(x) == x >= 32768
Retired(ops) == hist # <<>> /\ hist[Len(hist)][3] \in ops
FlagsOf(res) == <<res = 0, SignBit(res)>>
OthersKept(r) == \A q \in (0..7) \ {r} : R'[q] = R[q]

\* C11: executing a word whose opcode field is 0x1E or 0x1F sets halted and
\* leaves every memory byte, every register R0..R7 and every flag unchanged.
C11_UnknownOpcodeHalts ==
    [][(Running /\ CurOpcode \in {30, 31})
         => (halted' /\ mem' = mem /\ R' = R
             /\ <<Z', N', C', V'>> = <<Z, N, C, V>>)]_vars

C11_Witness == halted /\ Retired({30, 31}) /\ cerr # <<>>

AddAddend == IF CurOpcode = 12 THEN sxt8(Imm8Of(CurInsn)) ELSE R[Rs1]

\* C14: ADD, and ADDI with b the sign-extended imm8, leave R[rd] = (a + b)
\* mod 2^16, C = bit 16 of a + b, V = 1 exactly when a and b have the same
\* sign bit and the result's differs, Z = (result = 0), N = bit 15 of it.
C14_AddFlags ==
    [][(Running /\ CurOpcode \in {4, 12})
         => /\ R'[Rd] = (R[Rd] + AddAddend) % W16
            /\ OthersKept(Rd)
            /\ C' <=> ((R[Rd] + AddAddend) \div W16) % 2 = 1
            /\ V' <=> (SignBit(R[Rd]) = SignBit(AddAddend)
                       /\ SignBit(R'[Rd]) # SignBit(R[Rd]))
            /\ <<Z', N'>> = FlagsOf(R'[Rd])]_vars

\* ADD with operands (0xFFFF, 0x0001) has retired: 0x0000, Z=1 N=0 C=1 V=0
C14_Witness ==
    /\ Retired({4})
    /\ PC = 2
    /\ R[0] = 0 /\ R[1] = 1
    /\ Z /\ ~N /\ C /\ ~V

\* C15: SUB leaves R[rd] = (a - b) mod 2^16, V = bit 15 of ((a xor b) and
\* (a xor result)), Z = (result = 0), N = bit 15 of the result; CMP and CMPI
\* (b the sign-extended imm8) set Z, N, V identically and leave every
\* register unchanged.
C15_SubFlags ==
    [][IsSubStep
         => LET res == (SubMinuend + W16 - SubSubtrahend) % W16
            IN  /\ V' <=> (SignBit(SubMinuend) # SignBit(SubSubtrahend)
                           /\ SignBit(SubMinuend) # SignBit(res))
                /\ <<Z', N'>> = FlagsOf(res)
                /\ IF CurOpcode = 5
                   THEN R'[Rd] = res /\ OthersKept(Rd)
                   ELSE R' = R]_vars

\* CMPI of 0x8000 with 1 has retired: overflow, no register written
C15_Witness ==
    /\ Retired({13})
    /\ PC = 2
    /\ R[0] = 32768
    /\ V /\ ~N /\ ~Z

\* C16: after LDI, MOV, AND, OR, XOR, NOT, LD (absolute and short), LDB and
\* IN, Z = (R[rd] = 0), N = bit 15 of R[rd] and C = V = 0.
C16_LoadFlags ==
    [][(Running /\ CurOpcode \in {2, 3, 6, 7, 8, 9, 15, 17, 19, 28})
         => (<<Z', N'>> = FlagsOf(R'[Rd]) /\ ~C' /\ ~V')]_vars

\* a short LD has loaded a negative word from a state where C and V were set
C16_Witness ==
    /\ Retired({19})
    /\ hist[1][3] = 19
    /\ N /\ ~Z /\ ~C /\ ~V
    /\ R[0] >= 32768

\* C17: NOP, HALT, ST (absolute and short), STB, JMP, JZ, JNZ, JC, JN, CALL,
\* RET and OUT leave the flags Z, N, C and V unchanged.
C17_FlagsKept ==
    [][(Running /\ CurOpcode \in {0, 1, 16, 18, 20, 21, 22, 23, 24, 25, 26, 27, 29})
         => <<Z', N', C', V'>> = <<Z, N, C, V>>]_vars

\* a JZ was taken with all four flags set, and they still are
C17_Witness ==
    /\ Retired({22})
    /\ PC = JumpTo
    /\ Z /\ N /\ C /\ V

ShiftBy == CurInsn % 8

\* C18: for a shift count s in 1..7, SHL leaves R[rd] = (x * 2^s) mod 2^16
\* with C = bit (16 - s) of x, and SHR leaves R[rd] = floor(x / 2^s) with
\* C = bit (s - 1) of x; with s = 0 the register is unchanged and C = 0;
\* V = 0 and Z, N follow the result in every case.
C18_Shifts ==
    [][(Running /\ CurOpcode \in {10, 11})
         => /\ R'[Rd] = (IF CurOpcode = 10
                         THEN (R[Rd] * (2 ^ ShiftBy)) % W16
                         ELSE R[Rd] \div (2 ^ ShiftBy))
            /\ OthersKept(Rd)
            /\ C' <=> (/\ ShiftBy # 0
                       /\ (R[Rd] \div (2 ^ (IF CurOpcode = 10
                                            THEN 16 - ShiftBy
                                            ELSE ShiftBy - 1))) % 2 = 1)
            /\ ~V'
            /\ <<Z', N'>> = FlagsOf(R'[Rd])]_vars

\* SHL of 0x8000 by 1 has retired: the bit shifted out is in C, the result 0
C18_Witness ==
    /\ Retired({10})
    /\ hist[1][3] = 10
    /\ R[0] = 0
    /\ C /\ Z /\ ~N /\ ~V

-----------------------------------------------------------------------------
(* Images for the stack and for the ends of the address space: a callee    *)
(* (RET, or NOP and RET) at CalleeAt and one instruction followed by HALT  *)
(* at the address the run starts from, with R1 and R7 drawn from EdgeVals. *)
(* R0 holds EdgeWord, the word the stores write.                           *)

CalleeAt  == 512        \* 0x0200
EdgeWord  == 43981      \* 0xABCD
CallSites == {0, 256, 65276}
EdgeVals  == {0, 1, 2, CalleeAt + 2, STACK_TOP, 65281, 65282, 65534, 65535}

EdgeMenu ==
    { <<Insn(26, 0, 0, 0), CalleeAt>>,      \* CALL CalleeAt
      <<Insn(27, 0, 0, 0)>>,                \* RET
      <<Insn(21, 0, 0, 0), 65534>>,         \* JMP 0xFFFE
      <<Insn(19, 2, 1, 1)>>,                \* LD r2, [r1+1]
      <<Insn(19, 2, 1, 31)>>,               \* LD r2, [r1-1]
      <<Insn(20, 1, 0, 1)>>,                \* ST r0, [r1+1]
      <<Insn(20, 1, 0, 31)>>,               \* ST r0, [r1-1]
      <<Insn(15, 2, 0, 0), 65535>>,         \* LD r2, [0xFFFF]
      <<Insn(16, 0, 0, 0), 65535>> }        \* ST r0, [0xFFFF]

Callees == { <<<<Insn(27, 0, 0, 0)>>>>,
             <<<<Insn(0, 0, 0, 0)>>, <<Insn(27, 0, 0, 0)>>>> }

InitEdge ==
    \E i \in EdgeMenu, A \in CallSites, callee \in Callees,
       r1 \in EdgeVals, r7 \in EdgeVals :
        InitFrom([loadImage(loadImage(Fresh, ImageOf(callee), CalleeAt),
                            ImageOf(<<i, <<Insn(1, 0, 0, 0)>>>>), A)
                    EXCEPT !.PC = A, !.R[0] = EdgeWord, !.R[1] = r1,
                           !.R[7] = r7])

SpecEdge == InitEdge /\ [][Next]_vars

-----------------------------------------------------------------------------
(* CALL and RET (SpecEdge) *)

\* the n-th last retired instruction, as <<PC, R[7], opcode>> before it
Ago(n) == hist[Len(hist) + 1 - n]

\* RET has just retired, n instructions after a CALL, with NOPs in between
Returned(n) ==
    /\ Len(hist) >= n
    /\ Ago(n)[3] = 26
    /\ Ago(1)[3] = 27
    /\ \A k \in 2..(n - 1) : Ago(k)[3] = 0

InRam(a) == a < MMIO_BASE

\* C12 as stated: for every call-site address and every pre-CALL value of
\* R7, after CALL T, a callee that leaves R7 and the stacked word unchanged,
\* and RET, PC is the address of the CALL plus 4 and R7 its pre-CALL value.
C12_ReturnsAfterCall ==
    \A n \in 2..3 :
        Returned(n) => (PC = (Ago(n)[1] + 4) % W16 /\ R[7] = Ago(n)[2])

\* C12, amended: R7 is restored for every pre-CALL value; PC is the address
\* of the CALL plus 4 when both bytes of the stack slot, at R7 - 2 and
\* R7 - 1 modulo 2^16, are RAM addresses (below 0xFF00).
C12_ReturnsWhenStackInRam ==
    \A n \in 2..3 :
        Returned(n)
          => /\ R[7] = Ago(n)[2]
             /\ (InRam((Ago(n)[2] + W16 - 2) % W16)
                 /\ InRam((Ago(n)[2] + W16 - 1) % W16))
                  => PC = (Ago(n)[1] + 4) % W16

\* CALL at 0x0100 with R7 = 0x7FFC, a NOP, RET: back at 0x0104
C12_Witness ==
    /\ Returned(3)
    /\ Ago(3)[1] = 256
    /\ Ago(3)[2] = STACK_TOP
    /\ PC = 260
    /\ R[7] = STACK_TOP

-----------------------------------------------------------------------------
(* The ends of the address space (SpecEdge) *)

ShortAddr(base) == (base + sxt5(Imm5Of(CurInsn))) % W16
ByteAt(a) == read8(State, a)
WordAt(a) == ByteAt(a) + W8 * ByteAt((a + 1) % W16)
Stored(a, w) ==
    /\ InRam(a) => MemGet(mem', a) = w % W8
    /\ InRam((a + 1) % W16) => MemGet(mem', (a + 1) % W16) = w \div W8

\* C19: PC, R7 and every effective address lie in 0..0xFFFF: PC + 2, R7 - 2,
\* R7 + 2, R[rb] + sxt5(imm) and the address of the second byte of a 16-bit
\* access wrap modulo 2^16; a 1-word instruction at 0xFFFE leaves PC = 0.
C19_AddressesWrap ==
    /\ [](/\ PC \in 0..(W16 - 1)
          /\ \A r \in 0..7 : R[r] \in 0..(W16 - 1)
          /\ DOMAIN mem \subseteq 0..(MMIO_BASE - 1)
          /\ \A k \in 1..Len(mmio_log) : mmio_log[k] \in MMIO_BASE..(W16 - 1))
    /\ [][Running
            => /\ (PC = 65534 /\ CurOpcode \in {0, 19, 20}) => PC' = 0
               /\ CurOpcode = 26 => R'[7] = (R[7] + W16 - 2) % W16
               /\ CurOpcode = 27 => R'[7] = (R[7] + 2) % W16
               /\ CurOpcode = 19 => R'[Rd] = WordAt(ShortAddr(R[Rs1]))
               /\ CurOpcode = 20 => Stored(ShortAddr(R[Rd]), R[Rs1])
               /\ CurOpcode = 15 => R'[Rd] = WordAt(CurOperand)
               /\ CurOpcode = 16 => Stored(CurOperand, R[Rs1])]_vars

\* the NOP read at 0xFFFE has retired and PC is 0
C19_Witness ==
    /\ hist # <<>>
    /\ Ago(1) = <<65534, R[7], 0>>
    /\ PC = 0

-----------------------------------------------------------------------------
(* Source texts that write two characters to the UART: each loads a        *)
(* register and OUTs it to 0xFF00, written in hex or in decimal.  A value  *)
(* is given as <<text, low byte>>.                                         *)

OutRegs  == {0, 1, 6, 7}
OutVals  == { <<"72", 72>>, <<"0x1234", 52>>, <<"0", 0>>, <<"65535", 255>> }
UartText == {"0xFF00", "65280"}

OutSource(ra, x, rb, y, u) ==
    << Line2("LDI", Reg(ra), x[1]),
       Line2("OUT", Reg(ra), At(u)),
       Line2("LDI", Reg(rb), y[1]),
       Line2("OUT", Reg(rb), At("0xff00")),
       "HALT" >>

InitOut ==
    \E ra \in OutRegs, rb \in OutRegs, x \in OutVals, y \in OutVals,
       u \in UartText :
        InitSource(OutSource(ra, x, rb, y, u))

SpecOut == InitOut /\ [][NextRun]_vars

\* C13: each executed OUT whose operand address is 0xFF00 delivers exactly
\* one byte to the character sink, the low byte of its source register at
\* that moment, and the bytes of successive OUTs appear in execution order.
C13_OutEmitsLowByte ==
    /\ [][(Running /\ CurOpcode = 29 /\ CurOperand = UART_OUT)
            => cout' = Append(cout, R[Rs1] % W8)]_vars
    /\ []((phase = "run" /\ halted)
            => \A ra \in OutRegs, rb \in OutRegs, x \in OutVals,
                  y \in OutVals, u \in UartText :
                  lines = OutSource(ra, x, rb, y, u) => cout = <<x[2], y[2]>>)

\* LDI r6, 0x1234 / OUT r6 / LDI r1, 72 / OUT r1 / HALT has run: "4H"
C13_Witness ==
    /\ phase = "run"
    /\ halted
    /\ lines = OutSource(6, <<"0x1234", 52>>, 1, <<"72", 72>>, "65280")
    /\ cout = <<52, 72>>
    /\ Retired({1})

-----------------------------------------------------------------------------
(* The MMIO region (SpecOps) *)

Unmapped(a) ==
    /\ a >= MMIO_BASE
    /\ a \notin {UART_OUT, UART_IN, TIMER_LO, TIMER_HI, TCMP_LO, TCMP_HI, IRQ_ACK}

\* what the fetch of a wide instruction and the tick leave of the state when
\* the instruction itself does nothing
OnlyFetchAndTick ==
    /\ mem' = mem /\ R' = R
    /\ <<Z', N', C', V'>> = <<Z, N, C, V>>
    /\ <<cout', cerr', timercmp', halted'>> = <<cout, cerr, timercmp, halted>>
    /\ PC' = (PC + 4) % W16
    /\ timer' = (timer + 1) % W16
    /\ irq_pending' = (irq_pending \/ (timercmp > 0 /\ timer' >= timercmp))

\* the address a short ST writes to
ShortStoreAt == (R[Rd] + sxt5(Imm5Of(CurInsn))) % W16

\* C20: for every address in 0xFF00..0xFFFF other than 0xFF00, 0xFF01 and
\* 0xFF10..0xFF14 a read returns 0 and a write changes no state; a read of
\* 0xFF00 returns 0 and a read of 0xFF01 returns 0xFF; and no write to an
\* address >= 0xFF00 changes a byte of the 64 KiB array.
C20_UnmappedMmio ==
    /\ [](DOMAIN mem \subseteq 0..(MMIO_BASE - 1))
    /\ [][Running
            => /\ (CurOpcode \in {17, 28} /\ Unmapped(CurOperand))
                    => R'[Rd] = 0
               /\ (CurOpcode \in {17, 28} /\ CurOperand = UART_OUT)
                    => R'[Rd] = 0
               /\ (CurOpcode \in {17, 28} /\ CurOperand = UART_IN)
                    => R'[Rd] = 255
               /\ (CurOpcode = 15 /\ Unmapped(CurOperand)
                   /\ Unmapped((CurOperand + 1) % W16))
                    => R'[Rd] = 0
               /\ (CurOpcode \in {18, 29} /\ Unmapped(CurOperand))
                    => OnlyFetchAndTick
               /\ (CurOpcode = 16 /\ Unmapped(CurOperand)
                   /\ Unmapped((CurOperand + 1) % W16))
                    => OnlyFetchAndTick
               /\ (CurOpcode \in {18, 29} /\ CurOperand >= MMIO_BASE)
                    => mem' = mem
               /\ (CurOpcode = 16 /\ CurOperand \in MMIO_BASE..(W16 - 2))
                    => mem' = mem
               /\ (CurOpcode = 20 /\ ShortStoreAt \in MMIO_BASE..(W16 - 2))
                    => mem' = mem]_vars

\* IN r0, [0xFF20] has retired: R0 = 0 and Z is set
C20_Witness ==
    /\ Retired({28})
    /\ hist[1][3] = 28
    /\ PC = 4
    /\ read16(State, 2) = 65312
    /\ R[0] = 0
    /\ Z

-----------------------------------------------------------------------------
(* Both drivers over one set of source texts: from the assembled state     *)
(* main either saves the bytes (asm) or loads and runs them (run).         *)

NextBoth ==
    Pass1Line \/ Pass2Begin \/ Pass2Line \/ Resolve \/ Save \/ Load \/ Step
        \/ StepHalted

\* lines with an operand that is a label no line defines
UndefRefs ==
    { "JMP nowhere", "JZ nowhere", "CALL Nowhere", "LDI r0, nowhere",
      ".word 1, nowhere", "LD r1, [nowhere]", "ST r1, [nowhere]",
      "OUT r0, [ nowhere ]" }

UndefSources ==
    { <<pre, ref, post>> :
        pre \in {"here: NOP", "nowher:"}, ref \in UndefRefs,
        post \in {"HALT", "where: HALT", "JMP here"} }

\* instruction lines with too few or too many operands
ArityLines ==
    { "ADD r0", "SHL r1", "CMP r2", "JMP", "CALL", "ADDI r0", "SUB",
      "ADD r0, r1, r2", "JMP 4, 6", "MOV r0", "NOT r0, r1", "LDI r0",
      "LD r1", "ST r1, [8192], r2", "OUT r0" }

AritySources == { <<l, "HALT">> : l \in ArityLines }

\* .stringz lines with a semicolon inside or after the string, each with
\* the bytes the string stands for
StringLines ==
    { <<".stringz \"a;b\"", <<97, 59, 98, 0>>>>,
      <<".stringz \";\"", <<59, 0>>>>,
      <<".stringz \"ab\" ; c", <<97, 98, 0>>>>,
      <<".stringz \"ab\" ; \"c;d\"", <<97, 98, 0>>>>,
      <<"msg: .stringz \"a; b\" ; text", <<97, 59, 32, 98, 0>>>> }

StringSources ==
    { <<p[1], post, "JMP end">> :
        p \in StringLines, post \in {"end: HALT", "end: .word end ; x"} }

\* two .org directives in a row, after code of 0, 2 or 8 bytes and before
\* a labelled line and references to the labels
OrgVals == {0, 2, 6, 12}
OrgLine(v) == ".org " \o ToString(v)
OrgHeads == { <<>>, <<"start: NOP">>, <<"start: LDI r0, 1", "JMP start">> }

OrgSources ==
    { pre \o <<OrgLine(A), OrgLine(B), "end: HALT", ".word end">> :
        pre \in OrgHeads, A \in OrgVals, B \in OrgVals }

\* a label defined on two or three lines, in either case, with a reference
\* before, between and after the definitions
DupRefs == {"JMP x", ".word x", "LDI r1, X"}
DupDefs == {"x: HALT", "X:", "x : NOP"}
DupSources ==
    { <<r1, "x: NOP", r2, d2, r3, d3>> :
        r1 \in DupRefs, r2 \in DupRefs, r3 \in DupRefs,
        d2 \in DupDefs, d3 \in {"HALT", "x: HALT"} }

SrcTexts ==
    UndefSources \cup AritySources \cup StringSources \cup OrgSources
        \cup DupSources

InitSrc == \E src \in SrcTexts : InitSource(src)

SpecSrc == InitSrc /\ [][NextBoth]_vars

-----------------------------------------------------------------------------
(* Errors of the assembler (SpecSrc) *)

HasUndefRef == \E i \in 1..Len(lines) : lines[i] \in UndefRefs
Produced == phase \in {"assembled", "done", "run"}
\* the exception was thrown by the fixup loop, after the last line of pass 2
FailedAtFixups == phase = "error" /\ line = Len(lines) + 1

\* C21: if an operand refers to a label that is never defined, assembly
\* fails at fixup resolution with an error naming that label and no binary
\* is produced: asm writes no output file and run executes no instruction.
C21_UndefinedLabelFails ==
    HasUndefRef
      => /\ ~Produced
         /\ saved = <<>>
         /\ retired = 0 /\ calls = 0
         /\ phase = "error"
              => (FailedAtFixups
                  /\ cerr = <<"Error: undefined label: nowhere">>)

C21_Witness ==
    /\ HasUndefRef
    /\ FailedAtFixups
    /\ lines[2] = "CALL Nowhere"
    /\ cerr = <<"Error: undefined label: nowhere">>
    /\ Len(bytes) = 8

HasWrongCount == \E i \in 1..Len(lines) : lines[i] \in ArityLines

\* C22: every instruction line that has the wrong number of operands for
\* its mnemonic is rejected with a structured assembler error and yields no
\* binary.
C22_WrongCountRejected ==
    HasWrongCount
      => /\ ~Produced
         /\ phase # "crashed"
         /\ saved = <<>>
         /\ (phase = "pass2" => line = 1)

-----------------------------------------------------------------------------
(* Comments, .org and labels (SpecSrc) *)

\* C23: a semicolon inside a double-quoted string does not start a comment:
\* in both passes a line such as .stringz "a;b" is sized and emitted as the
\* bytes 'a', ';', 'b', 0, and only a semicolon outside a quoted string
\* truncates the line.
C23_SemicolonInString ==
    Assembled
      => \A p \in StringLines :
           lines[1] = p[1]
             => /\ SubSeq(bytes, 1, Len(p[2])) = p[2]
                /\ sym["end"] = Len(p[2])

\* the source text without its i-th line
Without(src, i) == SubSeq(src, 1, i - 1) \o SubSeq(src, i + 1, Len(src))

OrgTwice(i, A, B) ==
    /\ i < Len(lines)
    /\ lines[i] = OrgLine(A)
    /\ lines[i + 1] = OrgLine(B)
    /\ A <= B

\* C24: for all addresses A <= B, a source with .org A immediately followed
\* by .org B assembles to the same byte image and the same symbol table as
\* the source with .org B alone, the image being zero-padded up to offset
\* B - org.
C24_OrgIdempotent ==
    Assembled
      => \A i \in 1..Len(lines), A \in OrgVals, B \in OrgVals :
           OrgTwice(i, A, B)
             => /\ assemble(Without(lines, i)).what = ""
                /\ bytes = assemble(Without(lines, i)).bytes
                /\ sym = assemble(Without(lines, i)).sym
                /\ Len(bytes) >= B - org
                /\ \A k \in (reached[i] + 1)..(B - org) : bytes[k] = 0

\* NOP / .org 2 / .org 6 / end: HALT / .word end has been assembled
C24_Witness ==
    /\ phase = "done"
    /\ OrgTwice(2, 2, 6)
    /\ sym = [start |-> 0, end |-> 6]
    /\ bytes = <<0, 0, 0, 0, 0, 0, 0, 8, 6, 0>>
    /\ saved = <<bytes>>

-----------------------------------------------------------------------------
(* The bundled example EX_FIB, assembled, loaded at 0 and run from PC = 0. *)
(* The text is split into lines as Assembler::load does.                   *)

EX_FIB ==
    << "",
       "; Fibonacci: compute first 10 16-bit Fibonacci numbers into memory",
       "; at label 'buf' (you can inspect with --dump).",
       "",
       ".org 0x0100",
       "start:",
       "  LDI r0, 0      ; a = 0",
       "  LDI r1, 1      ; b = 1",
       "  LDI r2, 10     ; count",
       "  LDI r3, buf    ; pointer to buffer",
       "",
       "loop:",
       "  ST  r0, [r3+0] ; store a",
       "  ADDI r3, #2    ; advance pointer (each word = 2 bytes)",
       "",
       "  ; next fib",
       "  MOV r4, r1     ; temp = b",
       "  ADD r1, r0     ; b = a + b",
       "  MOV r0, r4     ; a = old b",
       "",
       "  ADDI r2, #-1",
       "  JNZ loop",
       "",
       "  HALT",
       "",
       "buf:",
       "  .word 0,0,0,0,0,0,0,0,0,0" >>

\* bound
MaxRun == 250    \* exec() calls on a running CPU in SpecFib

\* while (!cpu.halted) cpu.exec();
Run ==
    /\ phase = "run"
    /\ ~halted
    /\ retired < MaxRun
    /\ Install(exec(State))
    /\ calls' = calls + 1
    /\ retired' = retired + 1
    /\ hist' = Append(hist, <<PC, R[7], OpcodeOf(fetch16_val(State))>>)
    /\ twin' = twin
    /\ UNCHANGED asmvars

NextFib == Pass1Line \/ Pass2Begin \/ Pass2Line \/ Resolve \/ Load \/ Run

InitFib == InitSource(EX_FIB)

\* the position of main: the pass, the line it is at, the instructions retired
Position == <<phase, line, retired>>

\* the states in which NextFib has a step: a pass always has a line or its
\* end to handle, an assembled image is loaded, a running CPU executes
Going ==
    \/ phase \in {"pass1", "pass2", "assembled"}
    \/ phase = "run" /\ ~halted /\ retired < MaxRun

\* every step of NextFib moves the position, and in no other way than this
Advance ==
    /\ Going
    /\ \E p \in {"pass1", "pass2", "assembled", "run", "error", "crashed"},
          l \in {line, line + 1, 1}, r \in {retired, retired + 1} :
          /\ phase' = p
          /\ line' = l
          /\ retired' = r

\* main runs each of its steps as long as one is possible: nothing blocks
\* the assembler's loops, the loader or the run loop
SpecFib == InitFib /\ [][NextFib]_vars /\ WF_Position(Advance)

FibWords == <<0, 1, 1, 2, 3, 5, 8, 13, 21, 34>>

\* C25: assembling EX_FIB, loading the image at base 0 and executing from
\* PC = 0 eventually reaches the halted state, and at that point the ten
\* little-endian words starting at the address of label buf are
\* 0, 1, 1, 2, 3, 5, 8, 13, 21, 34.
C25_FibHalts ==
    /\ <>(phase = "run" /\ halted)
    /\ []((phase = "run" /\ halted)
            => /\ "buf" \in DOMAIN sym
               /\ \A k \in 1..10 : RamWord(sym["buf"] + 2 * (k - 1)) = FibWords[k])

C25_Witness ==
    /\ phase = "run"
    /\ halted
    /\ sym["buf"] = 290
    /\ RamWord(308) = 34
    /\ R[2] = 0
    /\ Retired({1})

-----------------------------------------------------------------------------
(* Two runs of one image that start with different timercmp and           *)
(* irq_pending (SpecTwin)                                                  *)

\* bound
TwinLen == 3     \* instructions in the image of SpecTwin

I_LD(rd, a) == <<Insn(15, rd, 0, 0), a>>

TwinMenu ==
    { I_LDI(0, 1), I_OUT(0, TCMP_LO), I_OUT(0, IRQ_ACK),
      I_IN(1, TIMER_LO), I_OUT(1, UART_OUT), I_ST(1, DataAddr),
      I_IN(1, TCMP_LO), I_IN(1, IRQ_ACK), I_LD(1, TIMER_HI), I_HALT }

\* the opcodes whose case calls wide(): a second fetch16
Wide == {2, 15, 16, 17, 18, 21, 22, 23, 24, 25, 26, 28, 29}

\* read16(a) reads a and a + 1
WordAddrs(a) == {a, u16(a + 1)}

\* the addresses the case of the switch reads: read16 in LD (both forms)
\* and in pop16, read8 in LDB, either in IN
DataReads(s, insn, w) ==
    CASE OpcodeOf(insn) = 15 -> WordAddrs(w)
      [] OpcodeOf(insn) = 17 -> {w}
      [] OpcodeOf(insn) = 19 ->
            WordAddrs(u16(s.R[Rs1Of(insn)] + sxt5(Imm5Of(insn))))
      [] OpcodeOf(insn) = 27 -> WordAddrs(s.R[7])
      [] OpcodeOf(insn) = 28 -> IF w >= MMIO_BASE THEN {w} ELSE WordAddrs(w)
      [] OTHER -> {}

\* every address one exec() reads through Memory, the fetches included
ReadAddrs(s) ==
    IF s.halted THEN {}
    ELSE WordAddrs(s.PC)
         \cup (IF OpcodeOf(fetch16_val(s)) \in Wide
               THEN WordAddrs(u16(s.PC + 2)) ELSE {})
         \cup DataReads(s, fetch16_val(s), read16(s, u16(s.PC + 2)))

ReadsCompare(s) == ReadAddrs(s) \cap {TCMP_LO, TCMP_HI, IRQ_ACK} # {}

\* exec() in both runs
StepBoth ==
    /\ phase = "run"
    /\ twin # <<>>
    /\ ~halted
    /\ retired < MaxSteps
    /\ Install(exec(State))
    /\ calls' = calls + 1
    /\ retired' = retired + 1
    /\ hist' = Append(hist, <<PC, R[7], OpcodeOf(fetch16_val(State))>>)
    /\ twin' = [run  |-> exec(twin.run),
                read |-> \/ twin.read
                         \/ ReadsCompare(State)
                         \/ ReadsCompare(twin.run)]
    /\ UNCHANGED asmvars

NextTwin == StepBoth

\* the first run starts from the constructors' values, the second with
\* timercmp = k and irq_pending = b
InitTwin ==
    \E prog \in [1..TwinLen -> TwinMenu], k \in CmpInit, b \in BOOLEAN :
        /\ InitPair(Boot(ImageOf(prog), 0, 0),
                    [run  |-> [Boot(ImageOf(prog), 0, 0)
                                 EXCEPT !.timercmp = k, !.irq_pending = b],
                     read |-> FALSE])
        /\ NoAssembler

SpecTwin == InitTwin /\ [][NextTwin]_vars

Agree(s, t) ==
    /\ s.PC = t.PC
    /\ s.R = t.R
    /\ <<s.Z, s.N, s.C, s.V>> = <<t.Z, t.N, t.C, t.V>>
    /\ s.mem = t.mem
    /\ s.cout = t.cout

\* C26: two runs of one program that differ only in the starting values of
\* timercmp and irq_pending have the same PC, registers, flags, RAM and
\* sink output after every step, as long as no instruction has read
\* 0xFF12..0xFF14.
C26_IrqNeverConsumed ==
    (twin # <<>> /\ ~twin.read) => Agree(State, twin.run)

C26_Witness ==
    /\ twin # <<>>
    /\ ~twin.read
    /\ retired >= TwinLen
    /\ timercmp # twin.run.timercmp
    /\ irq_pending # twin.run.irq_pending
    /\ R[1] # 0
    /\ cout # <<>>
    /\ Agree(State, twin.run)

-----------------------------------------------------------------------------
(* Short programs assembled and run from PC = 0 (SpecProg)                 *)

\* ST rs, [rb+d] then LD rd, [rb+d], the code kept away from the data by
\* a jump over padding
ShortRegs  == { <<0, 1, 2>>, <<3, 3, 1>>, <<7, 6, 6>> }   \* rs, rb, rd
ShortBases == {8192, 65264, 65535}
ShortDisps == -16..15
ShortVal   == 4660

ShortSource(rs, rb, rd, b, d) ==
    << "JMP start",
       ".org 64",
       "start:",
       Line2("LDI", Reg(rs), "0x1234"),
       Line2("LDI", Reg(rb), ToString(b)),
       Line2("ST", Reg(rs), Plus(Reg(rb), ToString(d))),
       Line2("LD", Reg(rd), Plus(Reg(rb), ToString(d))),
       "HALT" >>

ShortSources ==
    {ShortSource(t[1], t[2], t[3], b, d) :
       t \in ShortRegs, b \in ShortBases, d \in ShortDisps}

\* a compare, then a conditional jump over a HALT
JumpNames == {"JZ", "JNZ", "JC", "JN"}
JumpVals  == {0, 1, 2}
JumpImms  == {1, 2}

JumpSource(J, x, y) ==
    << Line2("LDI", Reg(0), ToString(x)),
       Line2("CMPI", Reg(0), ToString(y)),
       J \o " eq",
       "HALT",
       "eq: LDI r0, 0",
       "HALT" >>

JumpSources ==
    {JumpSource(J, x, y) : J \in JumpNames, x \in JumpVals, y \in JumpImms}

InitProg == \E src \in ShortSources \cup JumpSources : InitSource(src)

SpecProg == InitProg /\ [][NextFib]_vars

Target(b, d) == (b + d) % W16

\* C27: for every base b in R[rb] and displacement d in -16..15 with
\* (b + d) mod 2^16 and the next address below 0xFF00, the assembled
\* ST rs,[rb+d] writes R[rs] as a little-endian word at (b + d) mod 2^16 and
\* the LD rd,[rb+d] that follows leaves that value in R[rd]; with
\* R0 = 0x1234, R1 = 0x2000 and d = 0 the word at 0x2000 and R2 are 0x1234.
C27_ShortRoundTrip ==
    (phase = "run" /\ halted) =>
        \A t \in ShortRegs, b \in ShortBases, d \in ShortDisps :
            ( /\ lines = ShortSource(t[1], t[2], t[3], b, d)
              /\ Target(b, d) + 1 < MMIO_BASE )
            => /\ RamWord(Target(b, d)) = (IF t[1] = t[2] THEN b ELSE ShortVal)
               /\ R[t[3]] = (IF t[1] = t[2] THEN b ELSE ShortVal)
               /\ R[t[2]] = (IF t[3] = t[2] THEN R[t[3]] ELSE b)

C27_Witness ==
    /\ phase = "run"
    /\ halted
    /\ lines = ShortSource(0, 1, 2, 8192, -3)
    /\ R[2] = ShortVal
    /\ R[0] = ShortVal
    /\ RamWord(8189) = ShortVal
    /\ Len(hist) = 6
    /\ hist[4][3] = 20
    /\ hist[5][3] = 19

\* the condition each conditional jump tests
Taken ==
    CASE CurOpcode = 22 -> Z
      [] CurOpcode = 23 -> ~Z
      [] CurOpcode = 24 -> C
      [] CurOpcode = 25 -> N

\* C28: JZ, JNZ, JC and JN set PC to the operand address exactly when
\* Z = 1, Z = 0, C = 1 and N = 1 respectively and otherwise leave PC at the
\* address of the instruction plus 4; the program
\* LDI r0,1; CMPI r0,1; JZ eq; HALT; eq: LDI r0,0; HALT ends with R0 = 0.
C28_ConditionalJumps ==
    /\ [][(Running /\ CurOpcode \in 22..25)
            => PC' = (IF Taken THEN CurOperand ELSE u16(PC + 4))]_vars
    /\ []((phase = "run" /\ halted /\ lines = JumpSource("JZ", 1, 1))
            => R[0] = 0)

C28_Witness ==
    /\ phase = "run"
    /\ halted
    /\ lines = JumpSource("JZ", 1, 1)
    /\ R[0] = 0
    /\ PC = 18
    /\ Len(hist) = 5
    /\ hist[3] = <<6, STACK_TOP, 22>>
    /\ hist[4][1] = 12

-----------------------------------------------------------------------------
(* Labels defined more than once (SpecSrc) *)

\* the offset in bytes of the operand word of a reference line that pass2
\* reached with n bytes emitted: .word emits it first, JMP and LDI after
\* the instruction word
RefAt(l, n) == IF l = ".word x" THEN n ELSE n + 2

WordIn(bs, off) == bs[off + 1] + W8 * bs[off + 2]

\* C29: when a label is defined on more than one line, every reference to
\* it, those on lines before the last definition included, is patched with
\* the address of the last definition in source order, and assembly reports
\* no error.
C29_LastDefinitionWins ==
    lines \in DupSources =>
        /\ phase \notin {"error", "crashed"}
        /\ Produced =>
              \A i \in 1..Len(lines), j \in 1..Len(lines) :
                  (lines[i] \in DupRefs /\ LastDef(j))
                      => WordIn(bytes, RefAt(lines[i], reached[i]))
                            = org + reached[j]

C29_Witness ==
    /\ phase = "assembled"
    /\ lines = <<"JMP x", "x: NOP", ".word x", "X:", "LDI r1, X", "x: HALT">>
    /\ fixups # <<>>
    /\ sym["x"] = 12
    /\ WordIn(bytes, 2) = 12
    /\ WordIn(bytes, 6) = 12
    /\ WordIn(bytes, 10) = 12

-----------------------------------------------------------------------------
(* 16-bit accesses at the last RAM address (SpecStraddle)                  *)

StraddleAt    == 65279     \* 0xFEFF
StraddleVals  == {0, 255, 4660, 16640, 43981}
StraddleDisps == {0 - 16, 0, 15}

\* R1 holds the word written, R2 the base of the short forms, R3 the word read
StraddleWriters(d) ==
    { I_ST(1, StraddleAt), I_OUT(1, StraddleAt), <<Insn(20, 2, 1, d % 32)>> }
StraddleReaders(d) ==
    { I_LD(3, StraddleAt), I_IN(3, StraddleAt), <<Insn(19, 3, 2, d % 32)>> }

StraddleProgs ==
    { <<I_LDI(1, v), I_LDI(2, StraddleAt - d), w, r, I_HALT>> :
        v \in StraddleVals, d \in StraddleDisps,
        w \in UNION {StraddleWriters(e) : e \in StraddleDisps},
        r \in UNION {StraddleReaders(e) : e \in StraddleDisps} }
      \cup { <<I_LDI(7, StraddleAt + 2), <<Insn(26, 0, 0, 0), 8>>,
               I_LD(3, StraddleAt), I_HALT>> }
      \cup { <<I_LDI(1, v), I_ST(1, StraddleAt), I_LDI(7, StraddleAt),
               <<Insn(27, 0, 0, 0)>> >> : v \in StraddleVals }

InitStraddle ==
    \E prog \in StraddleProgs : InitFrom(Boot(ImageOf(prog), 0, 0))

SpecStraddle == InitStraddle /\ [][Next]_vars

ShortAt(r) == u16(R[r] + sxt5(Imm5Of(CurInsn)))

\* the instruction about to execute writes a word at address A: ST, OUT
\* below 0xFF00, the short ST, the push of CALL
WritesWordAt(A) ==
    /\ Running
    /\ \/ CurOpcode = 16 /\ CurOperand = A
       \/ CurOpcode = 29 /\ CurOperand = A /\ A < MMIO_BASE
       \/ CurOpcode = 20 /\ ShortAt(Rd) = A
       \/ CurOpcode = 26 /\ u16(R[7] + (W16 - 2)) = A

\* the word it writes: the return address for CALL, R[rs1] for the others
WrittenWord == IF CurOpcode = 26 THEN u16(PC + 4) ELSE R[Rs1]

\* the instruction about to execute reads the word at address A into R[Rd]
ReadsWordAt(A) ==
    /\ Running
    /\ \/ CurOpcode \in {15, 28} /\ CurOperand = A
       \/ CurOpcode = 19 /\ ShortAt(Rs1) = A

\* C30: a 16-bit access at 0xFEFF straddles RAM and MMIO byte by byte: a
\* word write stores the low byte in RAM at 0xFEFF and hands the high byte
\* to device register 0xFF00, which emits it on the character sink; a word
\* read returns the RAM byte at 0xFEFF with a zero high byte.
C30_StraddlingAccess ==
    /\ [][WritesWordAt(StraddleAt)
            => /\ MemGet(mem', StraddleAt) = WrittenWord % W8
               /\ cout' = Append(cout, WrittenWord \div W8)
               /\ mmio_log' = Append(mmio_log, UART_OUT)]_vars
    /\ [][ReadsWordAt(StraddleAt) => R'[Rd] = MemGet(mem, StraddleAt)]_vars
    /\ [][(Running /\ CurOpcode = 27 /\ R[7] = StraddleAt)
            => PC' = MemGet(mem, StraddleAt)]_vars

C30_Witness ==
    /\ phase = "run"
    /\ halted
    /\ Len(hist) = 5
    /\ hist[3][3] = 20
    /\ hist[4][3] = 19
    /\ R[1] = 4660
    /\ R[2] = StraddleAt + 16
    /\ R[3] = 52
    /\ MemGet(mem, StraddleAt) = 52
    /\ cout = <<18>>
    /\ mmio_log = <<UART_OUT>>

-----------------------------------------------------------------------------
(* The interrupt latch (SpecLatch): one instruction and HALT, run with the *)
(* timer, the compare value and the latch as an earlier part of a program  *)
(* can have left them, R0 holding the value written, R1 = 0xFF14 and       *)
(* R7 = 0xFF15, from two addresses                                         *)

LatchSites  == {0, 252}
LatchVals   == {0, 1, 2, 256, 257}
LatchTimers == {0, 2, 65535}
LatchCmps   == {0, 1, 3}

LatchMenu ==
    { I_NOP,
      I_OUT(0, IRQ_ACK), I_ST(0, IRQ_ACK), <<Insn(18, 0, 0, 0), IRQ_ACK>>,
      I_ST(0, TCMP_HI), I_OUT(0, TCMP_HI),
      I_OUT(0, TCMP_LO), I_ST(0, TCMP_LO),
      I_OUT(0, TIMER_LO), I_ST(0, TIMER_LO),
      <<Insn(20, 1, 0, 0)>>, <<Insn(20, 1, 0, 31)>>,
      <<Insn(26, 0, 0, 0), CalleeAt>>,
      I_IN(2, IRQ_ACK) }

InitLatch ==
    \E i \in LatchMenu, A \in LatchSites, v \in LatchVals,
       t \in LatchTimers, k \in LatchCmps, b \in BOOLEAN :
        InitFrom([loadImage(Fresh, ImageOf(<<i, I_HALT>>), A)
                    EXCEPT !.PC = A, !.R[0] = v, !.R[1] = IRQ_ACK,
                           !.R[7] = IRQ_ACK + 1,
                           !.timer = t, !.timercmp = k, !.irq_pending = b])

SpecLatch == InitLatch /\ [][Next]_vars

\* the instruction about to execute writes the byte 1 to 0xFF14: as the
\* byte of STB or of OUT, or as the low or the high byte of a word write
AcksIrq ==
    /\ Running
    /\ \/ CurOpcode \in {18, 29} /\ CurOperand = IRQ_ACK /\ R[Rs1] % W8 = 1
       \/ WritesWordAt(IRQ_ACK) /\ WrittenWord % W8 = 1
       \/ WritesWordAt(TCMP_HI) /\ WrittenWord \div W8 = 1

\* C31: irq_pending is a sticky latch: once true it stays true after every
\* step until a write of the byte value 1 to 0xFF14; the timer wrapping
\* past 0xFFFF, a write of the timer to a value below timercmp, setting
\* timercmp to 0 and a write of another value to 0xFF14 do not clear it.
C31_StickyLatch ==
    [][(irq_pending /\ ~AcksIrq) => irq_pending']_vars

C31_Witness ==
    /\ phase = "run"
    /\ retired = 1
    /\ irq_pending
    /\ timercmp = 0
    /\ timer = 0
    /\ R[0] = 2
    /\ mmio_log = <<IRQ_ACK>>

====
